---- MODULE Spec2Model ----
(***************************************************************************)
(* Model of warpmetrics/meta-gen: the Generator (generate and              *)
(* generateWithRetry of src/core/generator.js), the length validator       *)
(* (validators.js), the Tracker (PerformanceTracker.trackPerformance of    *)
(* src/core/tracker.js), the feedback command (src/cli/feedback.js), the   *)
(* PromptManager (src/core/prompt-manager.js), the Learner (fetchOutcomes  *)
(* and Improver.analyze of src/core/improver.js) and the run command       *)
(* (src/cli/run.js).                                                       *)
(*                                                                         *)
(* The specifications share the module:                                    *)
(*   Spec         one call of generate(pages, options)                     *)
(*   SpecFair     Spec with weak fairness of its steps                     *)
(*   SpecLength   one call of a validator built by lengthValidator(opts)   *)
(*   SpecTracker  one call of trackPerformance                             *)
(*   SpecFeedback the feedback command over a meta.json                    *)
(*   SpecPrompt   a sequence of PromptManager calls over the prompt files  *)
(*   SpecFetch    one call of fetchOutcomes                                *)
(*   SpecLearner  one call of Improver.analyze                             *)
(*   SpecCycle    one run command: Tracker, Learner, Generator             *)
(*   SpecFetching one run of the Tracker, or of the Learner with a fetch   *)
(*   SpecConcurrent  the addPattern calls of two Learner runs, interleaved *)
(* The variables of the components a specification does not run stay at    *)
(* their idle values.                                                      *)
(***************************************************************************)
EXTENDS Integers, Sequences, FiniteSets, TLC

VARIABLES
    \* ---- Generator: inputs of generate
    pages,            \* the candidate list (page ids, in order)
    optMaxRetries,    \* options.maxRetries as passed (0: absent or falsy)
    validators,       \* length of the validator chain (options.validators)
    \* ---- Generator: locals of generate
    gpc,              \* position in generate / generateWithRetry
    maxRetries,       \* const maxRetries = options.maxRetries || 3
    pageIdx,          \* index of the page the for-of loop is at
    results,          \* const results = []
    failures,         \* const failures = []
    \* ---- Generator: locals of generateWithRetry (current page)
    attempt,          \* let attempt
    lastReason,       \* let lastReason = null
    failureHistory,   \* const failureHistory = []
    generated,        \* const generated = JSON.parse(...)
    failed,           \* let failed = null
    mergedMeta,       \* let mergedMeta = {}
    metas,            \* result.meta of the validators of the current attempt
    vIdx,             \* position of the for-of loop over validators
    \* ---- Generator: what the current page's group has received
    requests,         \* openai.chat.completions.create calls, in order
    vcalls,           \* validator invocations, in order
    events,           \* outcome(pageGrp, ...) calls, in order
    outcomeOf,        \* terminal outcome per page index ("none" until reached)
    systemPrompt,     \* const systemPrompt = await promptManager.getSystemPrompt()
    \* ---- lengthValidator
    lOptions,         \* the { min, max } argument of lengthValidator
    lDescription,     \* generated.description
    lpc,              \* "idle", "built" (closure returned), "called"
    lMin,             \* min of the closure, after defaults
    lMax,             \* max of the closure, after defaults
    lResult,          \* what the validator returned
    lEvents,          \* outcome(ctx.target, ...) calls of the validator
    \* ---- Tracker
    tTestMode,        \* process.env.TEST_MODE === 'true'
    tOutcomes,        \* generationRun.outcomes, joined with the pages argument
    tpc,              \* position in trackPerformance
    generatedPages,   \* const generatedPages
    tIdx,             \* index of the record the for-of loop is at
    tracked,          \* let tracked
    highPerformers,   \* let highPerformers
    tPerf,            \* let perf, of the record processed last
    tEvents,          \* outcome(trackingRun, ...) calls, in order
    tFetched,         \* pages getPagePerformanceByPage was called for, in order
    \* ---- feedbackCommand
    metaJson,         \* the entries of meta.json (the batch output), by page
    minDays,          \* options.minDays
    fpc,              \* position in feedbackCommand
    eligiblePages,    \* const eligiblePages (page indices, in order)
    \* ---- PromptManager: the prompts directory and the calls made on it
    files,            \* base.md, quality.md and the dated backups
    patternsFile,     \* patterns.json
    fsWrites,         \* fs.writeFile calls, in order
    today,            \* the day new Date() falls on
    pmLog,            \* the PromptManager calls made, in order
    pmResult,         \* what the last getSystemPrompt / getPatterns returned
    \* ---- Learner: fetchOutcomes
    fopc,             \* position in fetchOutcomes
    foName,           \* the name argument: the category of outcomes
    offset,           \* let offset
    foResults,        \* const results
    foQueries,        \* the requests made, in order
    foResponses,      \* the bodies received, in order
    \* ---- Learner: analyze
    apc,              \* position in analyze
    highCTROutcomes,  \* what fetchOutcomes('High CTR') resolved to
    analysis,         \* const analysis (its patterns)
    aIdx,             \* position of the for-of loop over analysis.patterns
    llmCalls,         \* openai.chat.completions.create calls made by analyze
    rewriteRequest,   \* the CURRENT PROMPT block of the second request
    aEvents,          \* outcome(grp, ...) calls of analyze, in order
    aResult,          \* what analyze returned
    \* ---- runCommand: one cycle
    cpc,              \* position in runCommand
    phases,           \* the phases started and finished, in order
    promptBefore,     \* the prompt as it was when the Learner was started
    \* ---- two Learner runs storing their patterns at the same time
    runAnalysis,      \* analysis.patterns of each run
    runIdx,           \* position of each run's for-of loop over its patterns
    runPc,            \* where each run's addPattern call is
    runRead,          \* const patterns of each run's addPattern call
    addLog            \* the reads and writes of patterns.json, in order

genVars == <<pages, optMaxRetries, validators, gpc, maxRetries, pageIdx, results,
             failures, attempt, lastReason, failureHistory, generated, failed,
             vIdx, requests, vcalls, events, outcomeOf, systemPrompt, mergedMeta, metas>>

lenVars == <<lOptions, lDescription, lpc, lMin, lMax, lResult, lEvents>>

trkVars == <<tTestMode, tOutcomes, tpc, generatedPages, tIdx, tracked,
             highPerformers, tPerf, tEvents, tFetched>>

fbVars == <<metaJson, minDays, fpc, eligiblePages>>

pmVars == <<files, patternsFile, fsWrites, today, pmLog, pmResult>>

foVars == <<fopc, foName, offset, foResults, foQueries, foResponses>>

lrnVars == <<apc, highCTROutcomes, analysis, aIdx, llmCalls, aEvents, aResult,
             rewriteRequest>>

runVars == <<cpc, phases, promptBefore>>

rmwVars == <<runAnalysis, runIdx, runPc, runRead, addLog>>

vars == <<genVars, lenVars, rmwVars, trkVars, fbVars, pmVars, foVars, lrnVars, runVars>>

\* What an action of one component leaves alone
notGenVars == <<lenVars, rmwVars, trkVars, fbVars, pmVars, foVars, lrnVars, runVars>>
notLenVars == <<genVars, rmwVars, trkVars, fbVars, pmVars, foVars, lrnVars, runVars>>
notTrkVars == <<genVars, lenVars, rmwVars, fbVars, pmVars, foVars, lrnVars, runVars>>
notFbVars == <<genVars, lenVars, rmwVars, pmVars, foVars, lrnVars, runVars>>
notPmVars == <<genVars, lenVars, rmwVars, trkVars, fbVars, foVars, lrnVars, runVars>>
notFoVars == <<genVars, lenVars, rmwVars, trkVars, fbVars, pmVars, lrnVars, runVars>>
notLrnVars == <<genVars, lenVars, rmwVars, trkVars, fbVars, foVars, runVars>>
notRmwVars == <<genVars, lenVars, trkVars, fbVars, foVars, lrnVars, runVars>>

----------------------------------------------------------------------------
(* Bounds of the model *)

MaxPages == 2
MaxRetriesOpt == 2
MaxChain == 2
MaxDescLen == 162
MaxRecords == 2
MaxEntries == 3
MaxCalls == 3
MaxDay == 2
MaxQueries == 3
MaxOutcomes == 6

(* Program constants *)

DefaultMaxRetries == 3
DefaultMin == 140
DefaultMax == 160
MinImpressions == 10
HighImprovementPct == 20
SimulatedMinImpressions == 5000
Limit == 100
MinHighPerformers == 5
DefaultChain == 2

----------------------------------------------------------------------------
(* JavaScript values that the code tests for truthiness *)

Null == [t |-> "null", s |-> ""]
Undefined == [t |-> "undefined", s |-> ""]
Str(x) == [t |-> "string", s |-> x]

\* !v for the values a reason can take: null, undefined and "" are falsy
Truthy(v) == v.t = "string" /\ v.s # ""

\* The reason validator i gives when it rejects with a reason
ReasonText(i) == "rejected by validator " \o ToString(i)

\* Messages of the exceptions the model raises
RequestError == "API rate limit"
ParseError == "Unexpected token in JSON"
ValidatorError == "validator threw"

\* What a validator can return: { pass, reason? }
ValidationResults(i) ==
    { [pass |-> TRUE, reason |-> Undefined],
      [pass |-> FALSE, reason |-> Str(ReasonText(i))],
      [pass |-> FALSE, reason |-> Undefined],
      [pass |-> FALSE, reason |-> Str("")] }

\* The keys validators write to result.meta
MetaKeys == {"qualityScore", "length"}

\* A key a meta does not have, and the value validator i writes at attempt k
NoValue == [has |-> FALSE, by |-> 0, at |-> 0]
ValueOf(i, k) == [has |-> TRUE, by |-> i, at |-> k]

\* result.meta undefined (or {})
NoMeta == [key \in MetaKeys |-> NoValue]

\* What a validator can return as meta with a pass: nothing, or an object;
\* every validator can write qualityScore and the first one also length.
\* (The meta of a failing result is never read: line 115 breaks before it.)
MetaValues(i, k) ==
    {NoMeta,
     [key \in MetaKeys |->
        IF key = "qualityScore" \/ i = 1 THEN ValueOf(i, k) ELSE NoValue]}

\* Variant: a key already set keeps its value
ObjectAssignKeepsFirst(target, source) ==
    [key \in MetaKeys |-> IF target[key].has THEN target[key] ELSE source[key]]

\* Line 118: Object.assign(mergedMeta, result.meta)
ObjectAssign(target, source) ==
    [key \in MetaKeys |-> IF source[key].has THEN source[key] ELSE target[key]]

\* The text the LLM returns for a page at an attempt
Completion(p, k) == [title |-> <<"title", p, k>>, description |-> <<"description", p, k>>]


----------------------------------------------------------------------------
(* PromptManager (src/core/prompt-manager.js): three files under prompts/  *)
(* and a dated backup of quality.md per day on which it was replaced.      *)
(* Calls are made one at a time, each running to completion.               *)

BASE_PROMPT == "BASE_PROMPT"
QUALITY_PROMPT_INITIAL == "QUALITY_PROMPT_INITIAL"

\* A file of the directory: absent, or its content
NoFile == [exists |-> FALSE, content |-> ""]
File(c) == [exists |-> TRUE, content |-> c]

\* patterns.json: absent, or { patterns: [...] }
NoPatternsFile == [exists |-> FALSE, patterns |-> <<>>]
PatternsFile(list) == [exists |-> TRUE, patterns |-> list]

\* Lines 132-137: quality-${timestamp}.md, timestamp the ISO date of today
BackupPath(day) == "quality-" \o ToString(day) \o ".md"

MdPaths == {"base.md", "quality.md"} \cup {BackupPath(d) : d \in 1..MaxDay}

\* What callers write: quality texts and patterns (JSON values)
QualityTexts == {"improved quality 1", "improved quality 2"}
PatternValues == [description : {"Use action verbs", "Include numbers"},
                  sampleSize : {6}]

\* Lines 149-152: { ...pattern, addedAt: new Date().toISOString() }
Stamped(pattern, day) == [addedAt |-> day] @@ pattern

\* fs.writeFile(path, content): what the call log holds for one write
Write(path, content, list) == [path |-> path, content |-> content, list |-> list]

\* Variant: the new version is written before the backup is taken
UpdateWritesQualityFirst(day, oldContent, newContent) ==
    <<Write("quality.md", newContent, <<>>),
      Write(BackupPath(day), newContent, <<>>)>>

\* Lines 141-144: the backup, then the new version
UpdateWrites(day, oldContent, newContent) ==
    <<Write(BackupPath(day), oldContent, <<>>),
      Write("quality.md", newContent, <<>>)>>

\* The md files after a sequence of writes, applied in order
RECURSIVE AfterWrites(_, _)
AfterWrites(fs, ws) ==
    IF ws = <<>> THEN fs
    ELSE AfterWrites([fs EXCEPT ![Head(ws).path] = File(Head(ws).content)], Tail(ws))

\* Variant: initialize writes the defaults whatever is there
InitializeWritesAlways(fs) ==
    <<Write("base.md", BASE_PROMPT, <<>>),
      Write("quality.md", QUALITY_PROMPT_INITIAL, <<>>)>>

\* Lines 92-104: the writes initialize makes for base.md and quality.md
InitializeWrites(fs) ==
    (IF fs["base.md"].exists THEN <<>> ELSE <<Write("base.md", BASE_PROMPT, <<>>)>>)
    \o (IF fs["quality.md"].exists THEN <<>>
        ELSE <<Write("quality.md", QUALITY_PROMPT_INITIAL, <<>>)>>)

\* Lines 115-128: the prompt text, as its parts: base, quality and, when the
\* list is not empty, the LEARNED PATTERNS section with one line per pattern
SystemPrompt(fs, pf) ==
    [base |-> fs["base.md"].content, quality |-> fs["quality.md"].content,
     learned |-> pf.patterns]

\* A pattern an earlier cycle has stored
EarlierPattern == [description |-> "Start with verbs", sampleSize |-> 10, addedAt |-> 0]

NoResult == [of |-> "none"]

\* A call on the PromptManager: its name, its argument (the new content, or the
\* pattern) and whether it resolved
Call(op, arg, ok) == [op |-> op, arg |-> arg, ok |-> ok]

PmIdle ==
    /\ files = [p \in MdPaths |-> NoFile]
    /\ patternsFile = NoPatternsFile
    /\ fsWrites = <<>>
    /\ today = 0
    /\ pmLog = <<>>
    /\ pmResult = NoResult

PmInit ==
    /\ \E b \in {NoFile, File(BASE_PROMPT), File("site base prompt")} :
       \E q \in {NoFile, File(QUALITY_PROMPT_INITIAL)} :
          files = [p \in MdPaths |-> IF p = "base.md" THEN b
                                     ELSE IF p = "quality.md" THEN q ELSE NoFile]
    /\ patternsFile \in {NoPatternsFile, PatternsFile(<<>>),
                         PatternsFile(<<EarlierPattern>>)}
    /\ fsWrites = <<>>
    /\ today = 1
    /\ pmLog = <<>>
    /\ pmResult = NoResult

\* A directory that initialize has filled with the defaults
PmReady ==
    /\ files = [p \in MdPaths |-> IF p = "base.md" THEN File(BASE_PROMPT)
                                   ELSE IF p = "quality.md"
                                        THEN File(QUALITY_PROMPT_INITIAL)
                                   ELSE NoFile]
    /\ patternsFile = PatternsFile(<<>>)
    /\ fsWrites = <<>>
    /\ today = 1
    /\ pmLog = <<>>
    /\ pmResult = NoResult

\* The state changes of the calls, shared with the callers' models
\* initialize (lines 88-112)
DoInitialize ==
    /\ files' = AfterWrites(files, InitializeWrites(files))
    /\ patternsFile' = IF patternsFile.exists THEN patternsFile
                       ELSE PatternsFile(<<>>)
    /\ fsWrites' = fsWrites \o InitializeWrites(files)
                   \o (IF patternsFile.exists THEN <<>>
                       ELSE <<Write("patterns.json", "", <<>>)>>)

\* updateQualityPrompt (lines 131-145), quality.md readable
DoUpdateQualityPrompt(newContent) ==
    LET ws == UpdateWrites(today, files["quality.md"].content, newContent) IN
    /\ files' = AfterWrites(files, ws)
    /\ fsWrites' = fsWrites \o ws
    /\ UNCHANGED patternsFile

\* Variant: the file is rewritten with the new pattern alone
DoAddPatternAlone(pattern) ==
    LET list == <<Stamped(pattern, today)>> IN
    /\ patternsFile' = PatternsFile(list)
    /\ fsWrites' = Append(fsWrites, Write("patterns.json", "", list))
    /\ UNCHANGED files

\* addPattern (lines 147-154), patterns.json readable
DoAddPattern(pattern) ==
    LET list == Append(patternsFile.patterns, Stamped(pattern, today)) IN
    /\ patternsFile' = PatternsFile(list)
    /\ fsWrites' = Append(fsWrites, Write("patterns.json", "", list))
    /\ UNCHANGED files

\* The files getSystemPrompt reads are all there
Readable == files["base.md"].exists /\ files["quality.md"].exists /\ patternsFile.exists

Initialize ==
    /\ Len(pmLog) < MaxCalls
    /\ DoInitialize
    /\ pmLog' = Append(pmLog, Call("initialize", "", TRUE))
    /\ UNCHANGED <<notPmVars, today, pmResult>>

GetSystemPrompt ==
    /\ Len(pmLog) < MaxCalls
    /\ Readable
    /\ pmResult' = [of |-> "getSystemPrompt", prompt |-> SystemPrompt(files, patternsFile)]
    /\ pmLog' = Append(pmLog, Call("getSystemPrompt", "", TRUE))
    /\ UNCHANGED <<notPmVars, files, patternsFile, fsWrites, today>>

UpdateQualityPrompt ==
    /\ Len(pmLog) < MaxCalls
    /\ files["quality.md"].exists
    /\ \E newContent \in QualityTexts :
        /\ DoUpdateQualityPrompt(newContent)
        /\ pmLog' = Append(pmLog, Call("updateQualityPrompt", newContent, TRUE))
    /\ UNCHANGED <<notPmVars, today, pmResult>>

AddPattern ==
    /\ Len(pmLog) < MaxCalls
    /\ patternsFile.exists
    /\ \E pattern \in PatternValues :
        /\ DoAddPattern(pattern)
        /\ pmLog' = Append(pmLog, Call("addPattern", pattern, TRUE))
    /\ UNCHANGED <<notPmVars, today, pmResult>>

GetPatterns ==
    /\ Len(pmLog) < MaxCalls
    /\ patternsFile.exists
    /\ pmResult' = [of |-> "getPatterns", patterns |-> patternsFile.patterns]
    /\ pmLog' = Append(pmLog, Call("getPatterns", "", TRUE))
    /\ UNCHANGED <<notPmVars, files, patternsFile, fsWrites, today>>

\* fs.readFile rejects (ENOENT): the call rejects having written nothing
ReadFileFails ==
    /\ Len(pmLog) < MaxCalls
    /\ \E op \in {"getSystemPrompt", "updateQualityPrompt", "addPattern", "getPatterns"} :
        /\ CASE op = "getSystemPrompt" -> ~Readable
             [] op = "updateQualityPrompt" -> ~files["quality.md"].exists
             [] OTHER -> ~patternsFile.exists
        /\ pmLog' = Append(pmLog, Call(op, "", FALSE))
    /\ UNCHANGED <<notPmVars, files, patternsFile, fsWrites, today, pmResult>>

\* Midnight passes between two calls
NextDay ==
    /\ today < MaxDay
    /\ today' = today + 1
    /\ UNCHANGED <<notPmVars, files, patternsFile, fsWrites, pmLog, pmResult>>

PmNext ==
    \/ Initialize
    \/ GetSystemPrompt
    \/ UpdateQualityPrompt
    \/ AddPattern
    \/ GetPatterns
    \/ ReadFileFails
    \/ NextDay

----------------------------------------------------------------------------
(* Generator: generate(openai, promptManager, grp, pages, options) *)

\* const maxRetries = options.maxRetries || 3
EffectiveMaxRetries(opt) == IF opt = 0 THEN DefaultMaxRetries ELSE opt

\* Variant: only the most recent rejection is replayed
RejectionsLastOnly(history) ==
    IF Len(history) = 0 THEN <<>>
    ELSE <<[attempt |-> history[Len(history)].attempt,
            description |-> history[Len(history)].generated.description,
            reason |-> history[Len(history)].reason]>>

\* The rejection block of a request: failureHistory.map(f => `Attempt
\* ${f.attempt}: "${f.generated.description}" - REJECTED: ${f.reason}`)
Rejections(history) ==
    [i \in 1..Len(history) |->
        [attempt |-> history[i].attempt,
         description |-> history[i].generated.description,
         reason |-> history[i].reason]]

\* The messages of the request of one attempt: system, user and, when the
\* history is not empty, the rejection block
Messages(p, history) ==
    <<[role |-> "system", block |-> "systemPrompt", rejections |-> <<>>],
      [role |-> "user", block |-> "userPrompt", rejections |-> <<>>]>>
    \o (IF Len(history) > 0
        THEN <<[role |-> "user", block |-> "rejected", rejections |-> Rejections(history)]>>
        ELSE <<>>)

\* Variant: the caught failure reports the attempt that was running
CaughtFailureAtAttempt(p, msg) ==
    [failed |-> TRUE, url |-> p, attempts |-> attempt, lastReason |-> Str(msg),
     history |-> <<[attempt |-> attempt, reason |-> Str(msg)]>>]

\* Variant: the caught failure keeps the rejections recorded before the throw
CaughtFailureKeepsHistory(p, msg) ==
    [failed |-> TRUE, url |-> p, attempts |-> 0, lastReason |-> Str(msg),
     history |-> [k \in 1..Len(failureHistory) |->
                    [attempt |-> failureHistory[k].attempt,
                     reason |-> failureHistory[k].reason]]
                 \o <<[attempt |-> 0, reason |-> Str(msg)]>>]

\* The record generate pushes to failures in its catch block
CaughtFailure(p, msg) ==
    [failed |-> TRUE, url |-> p, attempts |-> 0, lastReason |-> Str(msg),
     history |-> <<[attempt |-> 0, reason |-> Str(msg)]>>]

\* The record generateWithRetry returns after the retry loop
ExhaustedFailure(p, mr, reason, history) ==
    [failed |-> TRUE, url |-> p, attempts |-> mr, lastReason |-> reason,
     history |-> history]

\* The record generate pushes to results
SuccessRecord(p, g) ==
    [failed |-> FALSE, url |-> p, title |-> g.title, description |-> g.description]

\* Variant: the loop over the validators has no break
ChainNeverBreaks(result) == FALSE

\* if (!result.pass) { failed = result.reason; break; }: whether the chain
\* stops after this result
ChainBreaks(result) == ~result.pass

\* Variant: one attempt more than maxRetries
LoopContinuesOnceMore(n, mr) == n <= mr + 1

\* Line 66: for (let attempt = 1; attempt <= maxRetries; attempt++)
LoopContinues(n, mr) == n <= mr

\* if (!failed) after the chain: the attempt counts as passed
AttemptPassed(f) == ~Truthy(f)

\* The system prompt before getSystemPrompt has resolved
NoPrompt == [base |-> "", quality |-> "", learned |-> <<>>]

\* The Generator before any call, for the specifications that do not run it
GenIdle ==
    /\ pages = <<>>
    /\ optMaxRetries = 0
    /\ validators = 0
    /\ gpc = "off"
    /\ maxRetries = 0
    /\ pageIdx = 0
    /\ results = <<>>
    /\ failures = <<>>
    /\ attempt = 0
    /\ lastReason = Null
    /\ failureHistory = <<>>
    /\ generated = Null
    /\ failed = Null
    /\ mergedMeta = NoMeta
    /\ metas = <<>>
    /\ vIdx = 0
    /\ requests = <<>>
    /\ vcalls = <<>>
    /\ events = <<>>
    /\ outcomeOf = [i \in 1..MaxPages |-> "none"]
    /\ systemPrompt = NoPrompt

GenInit ==
    /\ pages \in {[i \in 1..n |-> i] : n \in 0..MaxPages}
    /\ optMaxRetries \in (-1)..MaxRetriesOpt
    /\ validators \in 0..MaxChain
    /\ gpc = "idle"
    /\ maxRetries = 0
    /\ pageIdx = 0
    /\ results = <<>>
    /\ failures = <<>>
    /\ attempt = 0
    /\ lastReason = Null
    /\ failureHistory = <<>>
    /\ generated = Null
    /\ failed = Null
    /\ mergedMeta = NoMeta
    /\ metas = <<>>
    /\ vIdx = 0
    /\ requests = <<>>
    /\ vcalls = <<>>
    /\ events = <<>>
    /\ outcomeOf = [i \in 1..MaxPages |-> "none"]
    /\ systemPrompt = NoPrompt

\* Lines 7-16: options, the two lists, the system prompt
Generate ==
    /\ gpc = "idle"
    /\ Readable
    /\ maxRetries' = EffectiveMaxRetries(optMaxRetries)
    /\ results' = <<>>
    /\ failures' = <<>>
    /\ systemPrompt' = SystemPrompt(files, patternsFile)
    /\ pageIdx' = 1
    /\ gpc' = "loop"
    /\ UNCHANGED <<notGenVars, pages, optMaxRetries, validators, attempt, lastReason,
                   failureHistory, generated, failed, vIdx, requests, vcalls,
                   events, outcomeOf, mergedMeta, metas>>

\* Variant: failureHistory lives outside generateWithRetry, one list for all
\* the candidates of the call
BeginPageSharedHistory ==
    /\ gpc = "loop"
    /\ pageIdx <= Len(pages)
    /\ attempt' = 1
    /\ lastReason' = Null
    /\ generated' = Null
    /\ failed' = Null
    /\ vIdx' = 0
    /\ mergedMeta' = NoMeta
    /\ metas' = <<>>
    /\ requests' = <<>>
    /\ vcalls' = <<>>
    /\ events' = <<>>
    /\ gpc' = "attempt"
    /\ UNCHANGED <<notGenVars, systemPrompt, pages, optMaxRetries, validators, maxRetries, pageIdx,
                   results, failures, outcomeOf, failureHistory>>

\* Lines 18-31 and 63-64: the next page of the loop enters generateWithRetry
BeginPage ==
    /\ gpc = "loop"
    /\ pageIdx <= Len(pages)
    /\ attempt' = 1
    /\ lastReason' = Null
    /\ failureHistory' = <<>>
    /\ generated' = Null
    /\ failed' = Null
    /\ vIdx' = 0
    /\ mergedMeta' = NoMeta
    /\ metas' = <<>>
    /\ requests' = <<>>
    /\ vcalls' = <<>>
    /\ events' = <<>>
    /\ gpc' = "attempt"
    /\ UNCHANGED <<notGenVars, systemPrompt, pages, optMaxRetries, validators, maxRetries, pageIdx,
                   results, failures, outcomeOf>>

\* Line 59: return { results, failures }
Return ==
    /\ gpc = "loop"
    /\ pageIdx > Len(pages)
    /\ gpc' = "returned"
    /\ UNCHANGED <<notGenVars, systemPrompt, mergedMeta, metas, pages, optMaxRetries, validators, maxRetries, pageIdx,
                   results, failures, attempt, lastReason, failureHistory,
                   generated, failed, vIdx, requests, vcalls, events, outcomeOf>>

\* Variant: no try/catch around generateWithRetry, the exception leaves generate
CatchRethrows(msg) ==
    /\ events' = events
    /\ failures' = failures
    /\ outcomeOf' = outcomeOf
    /\ pageIdx' = Len(pages) + 1
    /\ gpc' = "loop"
    /\ UNCHANGED <<results>>

\* Lines 45-56: the catch block of generate, then the next iteration
Catch(msg) ==
    /\ events' = Append(events, [name |-> "Generation Error", page |-> pages[pageIdx],
                                 error |-> msg])
    /\ failures' = Append(failures, CaughtFailure(pages[pageIdx], msg))
    /\ outcomeOf' = [outcomeOf EXCEPT ![pageIdx] = "error"]
    /\ pageIdx' = pageIdx + 1
    /\ gpc' = "loop"
    /\ UNCHANGED <<results>>

\* The request of the current attempt, as logged
ThisRequest(how) ==
    [page |-> pages[pageIdx], attempt |-> attempt,
     messages |-> Messages(pages[pageIdx], failureHistory), outcome |-> how]

\* Lines 66-109, the request succeeds and its content parses
CreateCompletion ==
    /\ gpc = "attempt"
    /\ LoopContinues(attempt, maxRetries)
    /\ requests' = Append(requests, ThisRequest("ok"))
    /\ generated' = Completion(pages[pageIdx], attempt)
    /\ failed' = Null
    /\ mergedMeta' = NoMeta
    /\ metas' = <<>>
    /\ vIdx' = 1
    /\ gpc' = IF validators = 0 THEN "decide" ELSE "validate"
    /\ UNCHANGED <<notGenVars, systemPrompt, pages, optMaxRetries, validators, maxRetries, pageIdx,
                   results, failures, attempt, lastReason, failureHistory,
                   vcalls, events, outcomeOf>>

\* Lines 82-102, the request throws: control passes to the catch of generate
CreateCompletionThrows ==
    /\ gpc = "attempt"
    /\ LoopContinues(attempt, maxRetries)
    /\ requests' = Append(requests, ThisRequest("threw"))
    /\ Catch(RequestError)
    /\ UNCHANGED <<notGenVars, systemPrompt, mergedMeta, metas, pages, optMaxRetries, validators, maxRetries, attempt,
                   lastReason, failureHistory, generated, failed, vIdx, vcalls>>

\* Line 106, JSON.parse of the response throws
ParseThrows ==
    /\ gpc = "attempt"
    /\ LoopContinues(attempt, maxRetries)
    /\ requests' = Append(requests, ThisRequest("unparsable"))
    /\ Catch(ParseError)
    /\ UNCHANGED <<notGenVars, systemPrompt, mergedMeta, metas, pages, optMaxRetries, validators, maxRetries, attempt,
                   lastReason, failureHistory, generated, failed, vIdx, vcalls>>

\* Lines 111-120: one iteration of the loop over the validators
Validate ==
    /\ gpc = "validate"
    /\ vIdx <= validators
    /\ \E result \in ValidationResults(vIdx) :
       \E meta \in (IF result.pass THEN MetaValues(vIdx, attempt) ELSE {NoMeta}) :
        /\ vcalls' = Append(vcalls, [attempt |-> attempt, validator |-> vIdx,
                                     threw |-> FALSE, result |-> result])
        /\ metas' = Append(metas, [validator |-> vIdx, pass |-> result.pass,
                                   meta |-> meta])
        /\ failed' = IF ~result.pass THEN result.reason ELSE failed
        /\ mergedMeta' = IF result.pass THEN ObjectAssign(mergedMeta, meta)
                          ELSE mergedMeta
        /\ IF ChainBreaks(result)
           THEN /\ vIdx' = vIdx
                /\ gpc' = "decide"
           ELSE /\ vIdx' = vIdx + 1
                /\ gpc' = IF vIdx = validators THEN "decide" ELSE "validate"
    /\ UNCHANGED <<notGenVars, systemPrompt, pages, optMaxRetries, validators, maxRetries, pageIdx,
                   results, failures, attempt, lastReason, failureHistory,
                   generated, requests, events, outcomeOf>>

\* Line 112, the validator throws
ValidateThrows ==
    /\ gpc = "validate"
    /\ vIdx <= validators
    /\ vcalls' = Append(vcalls, [attempt |-> attempt, validator |-> vIdx,
                                 threw |-> TRUE,
                                 result |-> [pass |-> FALSE, reason |-> Undefined]])
    /\ Catch(ValidatorError)
    /\ UNCHANGED <<notGenVars, systemPrompt, mergedMeta, metas, pages, optMaxRetries, validators, maxRetries, attempt,
                   lastReason, failureHistory, generated, failed, vIdx, requests>>

\* Lines 122-131 and 33-44: the attempt passed, generate pushes a result
Succeed ==
    /\ gpc = "decide"
    /\ AttemptPassed(failed)
    /\ events' = Append(events, [name |-> "Generated", page |-> pages[pageIdx],
                                 attempts |-> attempt, meta |-> mergedMeta])
    /\ results' = Append(results, SuccessRecord(pages[pageIdx], generated))
    /\ outcomeOf' = [outcomeOf EXCEPT ![pageIdx] = "success"]
    /\ pageIdx' = pageIdx + 1
    /\ gpc' = "loop"
    /\ UNCHANGED <<notGenVars, systemPrompt, mergedMeta, metas, pages, optMaxRetries, validators, maxRetries, failures,
                   attempt, lastReason, failureHistory, generated, failed, vIdx,
                   requests, vcalls>>

\* Lines 133-141: the attempt failed, its reason joins the history
RecordFailure ==
    /\ gpc = "decide"
    /\ ~AttemptPassed(failed)
    /\ failureHistory' = Append(failureHistory,
            [attempt |-> attempt, reason |-> failed, generated |-> generated])
    /\ events' = Append(events, [name |-> "Validation Failed", page |-> pages[pageIdx],
                                 reason |-> failed, attempt |-> attempt])
    /\ lastReason' = failed
    /\ attempt' = attempt + 1
    /\ gpc' = "attempt"
    /\ UNCHANGED <<notGenVars, systemPrompt, mergedMeta, metas, pages, optMaxRetries, validators, maxRetries, pageIdx,
                   results, failures, generated, failed, vIdx, requests, vcalls,
                   outcomeOf>>

\* Lines 144-151 and 33-34: the loop ran out, generate pushes the failure
GenerationFailed ==
    /\ gpc = "attempt"
    /\ ~LoopContinues(attempt, maxRetries)
    /\ events' = Append(events, [name |-> "Generation Failed", page |-> pages[pageIdx],
                                 attempts |-> maxRetries, lastReason |-> lastReason,
                                 history |-> failureHistory])
    /\ failures' = Append(failures,
            ExhaustedFailure(pages[pageIdx], maxRetries, lastReason, failureHistory))
    /\ outcomeOf' = [outcomeOf EXCEPT ![pageIdx] = "exhausted"]
    /\ pageIdx' = pageIdx + 1
    /\ gpc' = "loop"
    /\ UNCHANGED <<notGenVars, systemPrompt, mergedMeta, metas, pages, optMaxRetries, validators, maxRetries, results,
                   attempt, lastReason, failureHistory, generated, failed, vIdx,
                   requests, vcalls>>

GenNext ==
    \/ Generate
    \/ BeginPage
    \/ Return
    \/ CreateCompletion
    \/ CreateCompletionThrows
    \/ ParseThrows
    \/ Validate
    \/ ValidateThrows
    \/ Succeed
    \/ RecordFailure
    \/ GenerationFailed

----------------------------------------------------------------------------
(* lengthValidator({ min = 140, max = 160 } = {}) of validators.js *)

\* A description of n characters ('A'.repeat(n) in the tests)
Description(n) == [i \in 1..n |-> "A"]

\* An option that was not passed (the default applies)
NotGiven == [given |-> FALSE, v |-> 0]
Given(x) == [given |-> TRUE, v |-> x]

\* The values tried for min and max
LengthOptionValues == {0, 50, 80, DefaultMin, DefaultMax, DefaultMax + 1}

\* Destructuring default: { min = 140 }
OrDefault(opt, dflt) == IF opt.given THEN opt.v ELSE dflt

\* Variant: the lower bound is exclusive
LengthOutOfBoundsExclusive(len, min, max) == len <= min \/ len > max

\* if (len < min || len > max)
LengthOutOfBounds(len, min, max) == len < min \/ len > max

\* `Description is ${len} chars, must be ${min}-${max}`
LengthReason(len, min, max) ==
    "Description is " \o ToString(len) \o " chars, must be "
        \o ToString(min) \o "-" \o ToString(max)

LenIdle ==
    /\ lOptions = [min |-> NotGiven, max |-> NotGiven]
    /\ lDescription = <<>>
    /\ lpc = "off"
    /\ lMin = 0
    /\ lMax = 0
    /\ lResult = [pass |-> FALSE, reason |-> Undefined]
    /\ lEvents = <<>>

LenInit ==
    /\ lOptions \in [min : {NotGiven} \cup {Given(x) : x \in LengthOptionValues},
                     max : {NotGiven} \cup {Given(x) : x \in LengthOptionValues}]
    /\ lDescription \in {Description(n) : n \in 0..MaxDescLen}
    /\ lpc = "idle"
    /\ lMin = 0
    /\ lMax = 0
    /\ lResult = [pass |-> FALSE, reason |-> Undefined]
    /\ lEvents = <<>>

\* Line 4: the factory binds min and max and returns the validator
LengthValidator ==
    /\ lpc = "idle"
    /\ lMin' = OrDefault(lOptions.min, DefaultMin)
    /\ lMax' = OrDefault(lOptions.max, DefaultMax)
    /\ lpc' = "built"
    /\ UNCHANGED <<notLenVars, lOptions, lDescription, lResult, lEvents>>

\* Lines 5-15: the validator is called on a generated description
CallLengthValidator ==
    /\ lpc = "built"
    /\ LET len == Len(lDescription) IN
        IF LengthOutOfBounds(len, lMin, lMax)
        THEN /\ lEvents' = Append(lEvents, [name |-> "Length Failed", length |-> len,
                                            min |-> lMin, max |-> lMax])
             /\ lResult' = [pass |-> FALSE,
                            reason |-> Str(LengthReason(len, lMin, lMax))]
        ELSE /\ lEvents' = Append(lEvents, [name |-> "Length Passed", length |-> len,
                                            min |-> lMin, max |-> lMax])
             /\ lResult' = [pass |-> TRUE, reason |-> Undefined]
    /\ lpc' = "called"
    /\ UNCHANGED <<notLenVars, lOptions, lDescription, lMin, lMax>>

LenNext ==
    \/ LengthValidator
    \/ CallLengthValidator

----------------------------------------------------------------------------
(* Tracker: PerformanceTracker.trackPerformance of tracker.js.  Click    *)
(* rates are integers, in units of 0.0001 (0.03 is 300).                   *)

\* opts.currentCTR of a 'Generated' outcome: absent, or a click rate
NoBaseline == [has |-> FALSE, v |-> 0]
Baseline(x) == [has |-> TRUE, v |-> x]

BaselineValues == {0, 300}
CurrentCtrValues == {0, 300, 360, 361}
ImpressionValues == {MinImpressions - 1, MinImpressions}

\* The outcomes of the generation run, each joined with the entry the pages
\* argument has for its url: name, whether opts.page is set, opts.currentCTR,
\* and whether pageMap yields a description
OutcomeKinds ==
    {[name |-> "Generation Failed", hasUrl |-> TRUE, baseline |-> NoBaseline,
      described |-> FALSE],
     [name |-> "Generated", hasUrl |-> FALSE, baseline |-> Baseline(300),
      described |-> FALSE]}
    \cup [name : {"Generated"}, hasUrl : {TRUE},
          baseline : {NoBaseline} \cup {Baseline(x) : x \in BaselineValues},
          described : BOOLEAN]

\* What getPagePerformanceByPage can return: null, or { ctr, impressions }
NoPerf == [null |-> TRUE, ctr |-> 0, impressions |-> 0]
PerfValues ==
    {NoPerf} \cup [null : {FALSE}, ctr : CurrentCtrValues, impressions : ImpressionValues]

\* Lines 41-54: filter 'Generated', map, then
\* filter(p => p.url && p.baselineCTR !== undefined && p.description)
RECURSIVE GeneratedPagesFrom(_, _)
GeneratedPagesFrom(outcomes, i) ==
    IF i > Len(outcomes) THEN <<>>
    ELSE LET o == outcomes[i] IN
         (IF o.name = "Generated" /\ o.hasUrl /\ o.baseline.has /\ o.described
          THEN <<[page |-> i, baselineCTR |-> o.baseline.v]>>
          ELSE <<>>)
         \o GeneratedPagesFrom(outcomes, i + 1)

\* improvement > pct / 100, where improvement = (c - b) / b in floating
\* point: +Infinity for b = 0 < c, NaN (every comparison false) for 0 / 0
ImprovementGreater(c, b, pct) ==
    IF b = 0 THEN c > 0 ELSE 100 * (c - b) > pct * b

\* improvement >= pct / 100
ImprovementAtLeast(c, b, pct) ==
    IF b = 0 THEN c > 0 ELSE 100 * (c - b) >= pct * b

\* Variant: the 20% boundary is inclusive
ClassifyInclusive(c, b) ==
    IF ImprovementAtLeast(c, b, HighImprovementPct) THEN "High CTR"
    ELSE IF ImprovementGreater(c, b, 0) THEN "Improved"
    ELSE "No Improvement"

\* Lines 108-143: if (improvement > 0.2) ... else if (improvement > 0) ... else
Classify(c, b) ==
    IF ImprovementGreater(c, b, HighImprovementPct) THEN "High CTR"
    ELSE IF ImprovementGreater(c, b, 0) THEN "Improved"
    ELSE "No Improvement"

\* Variant: ten impressions are still too few
InsufficientAtTen(perf) == perf.null \/ perf.impressions <= MinImpressions

\* Line 94: if (!perf || perf.impressions < 10)
Insufficient(perf) == perf.null \/ perf.impressions < MinImpressions

\* Lines 72-84: the click rates TEST_MODE can simulate for baseline b:
\* b * factor with 0.9 < factor < 1.5
SimulatedCtr(b) ==
    IF b = 0 THEN {0}
    ELSE {c \in CurrentCtrValues : 10 * c > 9 * b /\ 2 * c < 3 * b}

TrkIdle ==
    /\ tTestMode = FALSE
    /\ tOutcomes = <<>>
    /\ tpc = "off"
    /\ generatedPages = <<>>
    /\ tIdx = 0
    /\ tracked = 0
    /\ highPerformers = 0
    /\ tPerf = NoPerf
    /\ tEvents = <<>>
    /\ tFetched = <<>>

TrkInit ==
    /\ tTestMode \in BOOLEAN
    /\ tOutcomes \in UNION {[1..n -> OutcomeKinds] : n \in 0..MaxRecords}
    /\ tpc = "idle"
    /\ generatedPages = <<>>
    /\ tIdx = 0
    /\ tracked = 0
    /\ highPerformers = 0
    /\ tPerf = NoPerf
    /\ tEvents = <<>>
    /\ tFetched = <<>>

\* Lines 12-63: the run is fetched and the records to track are selected
TrackPerformance ==
    /\ tpc = "idle"
    /\ generatedPages' = GeneratedPagesFrom(tOutcomes, 1)
    /\ tracked' = 0
    /\ highPerformers' = 0
    /\ tIdx' = 1
    /\ tpc' = "loop"
    /\ UNCHANGED <<notTrkVars, tTestMode, tOutcomes, tPerf, tEvents, tFetched>>

\* Lines 26-28: the run cannot be fetched, trackPerformance throws
FetchRunFails ==
    /\ tpc = "idle"
    /\ tpc' = "threw"
    /\ UNCHANGED <<notTrkVars, tTestMode, tOutcomes, generatedPages, tIdx,
                   tracked, highPerformers, tPerf, tEvents, tFetched>>

\* Variant: the event is emitted, the counters are left alone
RecordUncounted(page, perf) ==
    /\ tEvents' = Append(tEvents, [name |-> Classify(perf.ctr, page.baselineCTR),
                                   page |-> page.page, ctr |-> perf.ctr,
                                   baselineCTR |-> page.baselineCTR,
                                   impressions |-> perf.impressions])
    /\ UNCHANGED <<tracked, highPerformers>>

\* Lines 107-145: the classification event of a record and the counters
Record(page, perf) ==
    LET class == Classify(perf.ctr, page.baselineCTR) IN
    /\ tEvents' = Append(tEvents, [name |-> class, page |-> page.page,
                                   ctr |-> perf.ctr,
                                   baselineCTR |-> page.baselineCTR,
                                   impressions |-> perf.impressions])
    /\ highPerformers' = IF class = "High CTR" THEN highPerformers + 1
                         ELSE highPerformers
    /\ tracked' = tracked + 1

\* Lines 71-84 and 107-145: one iteration of the loop in test mode
TrackSimulated ==
    /\ tpc = "loop"
    /\ tIdx <= Len(generatedPages)
    /\ tTestMode
    /\ \E c \in SimulatedCtr(generatedPages[tIdx].baselineCTR) :
        LET perf == [null |-> FALSE, ctr |-> c,
                     impressions |-> SimulatedMinImpressions] IN
        /\ tPerf' = perf
        /\ Record(generatedPages[tIdx], perf)
    /\ tIdx' = tIdx + 1
    /\ UNCHANGED <<notTrkVars, tTestMode, tOutcomes, tpc, generatedPages, tFetched>>

\* Lines 86-145: one iteration of the loop with metrics fetched
TrackFetched ==
    /\ tpc = "loop"
    /\ tIdx <= Len(generatedPages)
    /\ ~tTestMode
    /\ \E perf \in PerfValues :
        /\ tPerf' = perf
        /\ IF Insufficient(perf)
           THEN /\ tEvents' = Append(tEvents,
                        [name |-> "Insufficient Data",
                         page |-> generatedPages[tIdx].page,
                         reason |-> IF perf.null THEN "No data from GSC"
                                    ELSE "Low impressions"])
                /\ UNCHANGED <<tracked, highPerformers>>
           ELSE Record(generatedPages[tIdx], perf)
    /\ tFetched' = Append(tFetched, generatedPages[tIdx].page)
    /\ tIdx' = tIdx + 1
    /\ UNCHANGED <<notTrkVars, tTestMode, tOutcomes, tpc, generatedPages>>

\* Lines 87-92: the metrics fetch throws, trackPerformance throws
FetchMetricsFails ==
    /\ tpc = "loop"
    /\ tIdx <= Len(generatedPages)
    /\ ~tTestMode
    /\ tFetched' = Append(tFetched, generatedPages[tIdx].page)
    /\ tpc' = "threw"
    /\ UNCHANGED <<notTrkVars, tTestMode, tOutcomes, generatedPages, tIdx,
                   tracked, highPerformers, tPerf, tEvents>>

\* Lines 148-161: 'Tracking Complete', flush, return
TrackingComplete ==
    /\ tpc = "loop"
    /\ tIdx > Len(generatedPages)
    /\ tEvents' = Append(tEvents, [name |-> "Tracking Complete",
                                   pagesTracked |-> tracked,
                                   highPerformers |-> highPerformers])
    /\ tpc' = "returned"
    /\ UNCHANGED <<notTrkVars, tTestMode, tOutcomes, generatedPages, tIdx,
                   tracked, highPerformers, tPerf, tFetched>>

TrkNext ==
    \/ TrackPerformance
    \/ FetchRunFails
    \/ TrackSimulated
    \/ TrackFetched
    \/ FetchMetricsFails
    \/ TrackingComplete

----------------------------------------------------------------------------
(* feedbackCommand (src/cli/feedback.js): selects the entries of meta.json *)
(* to track and hands them to trackPerformance.                            *)

\* meta.generatedAt: absent (a Failure record carries failedAt instead), or
\* a date that many whole days before now
NoDate == [has |-> FALSE, days |-> 0]
DaysAgo(d) == [has |-> TRUE, days |-> d]

MinDaysValues == {7}
DaysValues == {6, 7}

\* The entries meta.json can hold: a Success record (title, description,
\* generatedAt, runId, baseline), or a Failure record (failed: true,
\* failedAt, runId, ...), with or without a generatedAt of its own
MetaEntries ==
    [failed : {FALSE}, generatedAt : {DaysAgo(d) : d \in DaysValues},
     runId : BOOLEAN, described : {TRUE}]
    \cup [failed : {TRUE}, generatedAt : {NoDate, DaysAgo(7)},
          runId : {TRUE}, described : {FALSE}]

\* Variant: the age of an entry is not looked at
EligibleAnyAge(meta, md) == meta.runId

\* Lines 27-30: daysAgo >= options.minDays && meta.runId, where daysAgo is
\* NaN (every comparison false) for an entry without generatedAt
Eligible(meta, md) ==
    /\ meta.generatedAt.has
    /\ meta.generatedAt.days >= md
    /\ meta.runId

\* Lines 26-30: Object.entries(metaJson).filter(...)
EligibleIn(meta, md) == SelectSeq([i \in 1..Len(meta) |-> i],
                                  LAMBDA i : Eligible(meta[i], md))

\* tracker.js lines 30-49: the outcomes of the fetched run, each joined with
\* what the pages argument holds for its url
RunOutcomes(names, meta, eligible) ==
    [i \in 1..Len(meta) |->
        [name |-> names[i], hasUrl |-> TRUE, baseline |-> Baseline(300),
         described |-> /\ \E k \in 1..Len(eligible) : eligible[k] = i
                       /\ meta[i].described]]

FbIdle ==
    /\ metaJson = <<>>
    /\ minDays = 0
    /\ fpc = "off"
    /\ eligiblePages = <<>>

FbInit ==
    /\ metaJson \in UNION {[1..n -> MetaEntries] : n \in 0..MaxEntries}
    /\ minDays \in MinDaysValues
    /\ fpc = "idle"
    /\ eligiblePages = <<>>

\* Lines 23-41: nothing is eligible, the command returns without tracking
NothingEligible ==
    /\ fpc = "idle"
    /\ EligibleIn(metaJson, minDays) = <<>>
    /\ eligiblePages' = <<>>
    /\ fpc' = "returned"
    /\ UNCHANGED <<notFbVars, trkVars, metaJson, minDays>>

\* Lines 23-73: the eligible entries are passed to trackPerformance, which
\* fetches the generation run they name
FeedbackCommand ==
    /\ fpc = "idle"
    /\ EligibleIn(metaJson, minDays) # <<>>
    /\ eligiblePages' = EligibleIn(metaJson, minDays)
    /\ \E names \in [1..Len(metaJson) -> {"Generated", "Generation Failed"}] :
        tOutcomes' = RunOutcomes(names, metaJson, eligiblePages')
    /\ tTestMode' \in BOOLEAN
    /\ tpc' = "idle"
    /\ fpc' = "tracking"
    /\ UNCHANGED <<notFbVars, metaJson, minDays, generatedPages, tIdx, tracked,
                   highPerformers, tPerf, tEvents, tFetched>>

\* Lines 68-90: trackPerformance returned, the totals are reported
FeedbackDone ==
    /\ fpc = "tracking"
    /\ tpc = "returned"
    /\ fpc' = "returned"
    /\ UNCHANGED <<notFbVars, trkVars, metaJson, minDays, eligiblePages>>

\* The catch of feedbackCommand: trackPerformance threw
FeedbackFails ==
    /\ fpc = "tracking"
    /\ tpc = "threw"
    /\ fpc' = "failed"
    /\ UNCHANGED <<notFbVars, trkVars, metaJson, minDays, eligiblePages>>

FbNext ==
    \/ NothingEligible
    \/ FeedbackCommand
    \/ FeedbackDone
    \/ FeedbackFails
    \/ TrkNext

----------------------------------------------------------------------------
(* Learner (src/core/improver.js): fetchOutcomes pages through one         *)
(* category of outcomes; analyze learns from them and updates the prompts. *)

\* A response body: data, and pagination.hasMore (pagination may be missing)
Body(data, pagination, hasMore) ==
    [data |-> data, pagination |-> pagination, hasMore |-> hasMore]

\* Line 20: the parameters of a request
Query(name, off) == [name |-> name, limit |-> Limit, offset |-> off]

\* The records a page at this offset holds, n of them
PageData(off, n) == [j \in 1..n |-> off + j]

PageSizes == {0, 1, Limit}

\* Variant: only the page received last is kept
MergeLatest(sofar, data) == data

\* Line 28: results.push(...body.data)
Merge(sofar, data) == sofar \o data

\* Line 30: if (!body.pagination?.hasMore) break
KeepFetching(body) == body.pagination /\ body.hasMore

FoIdle ==
    /\ fopc = "off"
    /\ foName = ""
    /\ offset = 0
    /\ foResults = <<>>
    /\ foQueries = <<>>
    /\ foResponses = <<>>

FoInit ==
    /\ fopc = "idle"
    /\ foName \in {"High CTR", "No Improvement", "Generation Failed"}
    /\ offset = 0
    /\ foResults = <<>>
    /\ foQueries = <<>>
    /\ foResponses = <<>>

\* Lines 15-17
FetchOutcomes ==
    /\ fopc = "idle"
    /\ offset' = 0
    /\ foResults' = <<>>
    /\ fopc' = "loop"
    /\ UNCHANGED <<notFoVars, foName, foQueries, foResponses>>

\* Lines 19-31: one request, answered; the service reports more pages for at
\* most MaxQueries - 1 requests
FetchPage ==
    /\ fopc = "loop"
    /\ \E n \in PageSizes, pagination \in BOOLEAN, hasMore \in BOOLEAN :
        LET body == Body(PageData(offset, n), pagination, hasMore) IN
        /\ KeepFetching(body) => Len(foQueries) + 1 < MaxQueries
        /\ ~pagination => ~hasMore
        /\ foQueries' = Append(foQueries, Query(foName, offset))
        /\ foResponses' = Append(foResponses, body)
        /\ foResults' = Merge(foResults, body.data)
        /\ IF KeepFetching(body)
           THEN offset' = offset + Limit /\ fopc' = "loop"
           ELSE offset' = offset /\ fopc' = "returned"
    /\ UNCHANGED <<notFoVars, foName>>

\* Variant: a response that is not ok ends the loop like an empty last page
FetchPageFailsSwallowed ==
    /\ fopc = "loop"
    /\ foQueries' = Append(foQueries, Query(foName, offset))
    /\ fopc' = "returned"
    /\ UNCHANGED <<notFoVars, foName, offset, foResults, foResponses>>

\* Line 25: if (!res.ok) throw
FetchPageFails ==
    /\ fopc = "loop"
    /\ foQueries' = Append(foQueries, Query(foName, offset))
    /\ fopc' = "threw"
    /\ UNCHANGED <<notFoVars, foName, offset, foResults, foResponses>>

FoNext ==
    \/ FetchOutcomes
    \/ FetchPage
    \/ FetchPageFails

\* What fetchOutcomes('High CTR') can resolve to: h outcomes, the first d of
\* them with opts.description
HighCTROutcomes(h, d) == [i \in 1..h |-> [described |-> i <= d]]

\* Lines 46-55: highCTROutcomes.filter(o => o.opts?.description)
HighPerformers(outcomes) == SelectSeq(outcomes, LAMBDA o : o.described)

\* Variant: three high performers are enough
EnoughDataFromThree(n) == n >= 3

\* Line 77: if (highPerformers.length < 5) ... return null
EnoughData(n) == ~(n < MinHighPerformers)

\* What the analysis call can answer with: up to two patterns, which may
\* repeat each other and a pattern stored earlier
AnalysisPatterns ==
    {<<>>} \cup {<<[description |-> "Use action verbs"]>>}
    \cup {<<[description |-> "Use action verbs"], [description |-> "Include numbers"]>>}
    \cup {<<[description |-> "Start with verbs"], [description |-> "Start with verbs"]>>}

\* The request for the improved prompt: not made yet, or made with the
\* text that follows CURRENT PROMPT: in its message
NoRequest == [sent |-> FALSE, currentPrompt |-> NoPrompt]
Request(prompt) == [sent |-> TRUE, currentPrompt |-> prompt]

NotReturned == [returned |-> FALSE, null |-> FALSE, patternsLearned |-> 0]
ReturnedNull == [returned |-> TRUE, null |-> TRUE, patternsLearned |-> 0]
Returned(n) == [returned |-> TRUE, null |-> FALSE, patternsLearned |-> n]

LrnIdle ==
    /\ apc = "off"
    /\ highCTROutcomes = <<>>
    /\ analysis = <<>>
    /\ aIdx = 0
    /\ llmCalls = 0
    /\ aEvents = <<>>
    /\ aResult = NotReturned
    /\ rewriteRequest = NoRequest

LrnInit ==
    /\ apc = "idle"
    /\ highCTROutcomes = <<>>
    /\ analysis = <<>>
    /\ aIdx = 0
    /\ llmCalls = 0
    /\ aEvents = <<>>
    /\ aResult = NotReturned
    /\ rewriteRequest = NoRequest

\* Lines 41-45 reject: one of the three fetchOutcomes threw
FetchAllFails ==
    /\ apc = "idle"
    /\ apc' = "fetch threw"
    /\ UNCHANGED <<notLrnVars, rewriteRequest, pmVars, highCTROutcomes, analysis, aIdx, llmCalls,
                   aEvents, aResult>>

\* Lines 38-83: the outcomes are fetched; with too few high performers
\* analyze emits 'Insufficient Data' and returns null
Analyze ==
    /\ apc = "idle"
    /\ \E h \in 0..MaxOutcomes : \E d \in 0..h :
        /\ highCTROutcomes' = HighCTROutcomes(h, d)
        /\ IF EnoughData(Len(HighPerformers(highCTROutcomes')))
           THEN /\ apc' = "analyse"
                /\ UNCHANGED <<aEvents, aResult>>
           ELSE /\ aEvents' = Append(aEvents,
                        [name |-> "Insufficient Data",
                         highPerformers |-> Len(HighPerformers(highCTROutcomes')),
                         needed |-> MinHighPerformers])
                /\ aResult' = ReturnedNull
                /\ apc' = "returned"
    /\ UNCHANGED <<notLrnVars, rewriteRequest, pmVars, analysis, aIdx, llmCalls>>

\* Lines 85-133: the analysis request and the parse of its answer
AnalysisCall ==
    /\ apc = "analyse"
    /\ llmCalls' = llmCalls + 1
    /\ analysis' \in AnalysisPatterns
    /\ aIdx' = 1
    /\ apc' = "store"
    /\ UNCHANGED <<notLrnVars, rewriteRequest, pmVars, highCTROutcomes, aEvents, aResult>>

\* Lines 125-133 or 151-164 reject: the request or JSON.parse throws
LlmCallFails ==
    /\ apc \in {"analyse", "improve"}
    /\ llmCalls' = llmCalls + 1
    /\ apc' = "threw"
    /\ rewriteRequest' = (IF apc = "improve" THEN Request(pmResult.prompt)
                        ELSE rewriteRequest)
    /\ UNCHANGED <<notLrnVars, pmVars, highCTROutcomes, analysis, aIdx, aEvents,
                   aResult>>

\* Variant: a pattern whose description is already stored is skipped
StorePatternDeduplicated ==
    /\ apc = "store"
    /\ aIdx <= Len(analysis)
    /\ LET pattern == [description |-> analysis[aIdx].description,
                       sampleSize |-> Len(HighPerformers(highCTROutcomes))] IN
        IF \E k \in 1..Len(patternsFile.patterns) :
                patternsFile.patterns[k].description = pattern.description
        THEN UNCHANGED <<files, patternsFile, fsWrites, pmLog>>
        ELSE /\ DoAddPattern(pattern)
             /\ pmLog' = Append(pmLog, Call("addPattern", pattern, TRUE))
    /\ aIdx' = aIdx + 1
    /\ UNCHANGED <<notLrnVars, rewriteRequest, today, pmResult, apc, highCTROutcomes, analysis,
                   llmCalls, aEvents, aResult>>

\* Lines 136-141: one pattern of the analysis is stored
StorePattern ==
    /\ apc = "store"
    /\ aIdx <= Len(analysis)
    /\ LET pattern == [description |-> analysis[aIdx].description,
                       sampleSize |-> Len(HighPerformers(highCTROutcomes))] IN
        /\ DoAddPattern(pattern)
        /\ pmLog' = Append(pmLog, Call("addPattern", pattern, TRUE))
    /\ aIdx' = aIdx + 1
    /\ UNCHANGED <<notLrnVars, rewriteRequest, today, pmResult, apc, highCTROutcomes, analysis,
                   llmCalls, aEvents, aResult>>

\* Line 144: the current prompt is read once the patterns are stored
ReadCurrentPrompt ==
    /\ apc = "store"
    /\ aIdx > Len(analysis)
    /\ pmResult' = [of |-> "getSystemPrompt",
                    prompt |-> SystemPrompt(files, patternsFile)]
    /\ pmLog' = Append(pmLog, Call("getSystemPrompt", "", TRUE))
    /\ apc' = "improve"
    /\ UNCHANGED <<notLrnVars, rewriteRequest, files, patternsFile, fsWrites, today,
                   highCTROutcomes, analysis, aIdx, llmCalls, aEvents, aResult>>

\* Lines 151-180: the improved prompt is requested and written, 'Patterns
\* Learned' is emitted, analyze returns
ImprovePrompt ==
    /\ apc = "improve"
    /\ llmCalls' = llmCalls + 1
    /\ \E newContent \in QualityTexts :
        /\ DoUpdateQualityPrompt(newContent)
        /\ pmLog' = Append(pmLog, Call("updateQualityPrompt", newContent, TRUE))
    /\ aEvents' = Append(aEvents,
            [name |-> "Patterns Learned", count |-> Len(analysis),
             highPerformers |-> Len(HighPerformers(highCTROutcomes))])
    /\ aResult' = Returned(Len(analysis))
    /\ apc' = "returned"
    /\ rewriteRequest' = Request(pmResult.prompt)
    /\ UNCHANGED <<notLrnVars, today, pmResult, highCTROutcomes, analysis, aIdx>>

\* Lines 41-45: Promise.all rejects with the error of the fetchOutcomes call
\* that threw
FetchesReject ==
    /\ fopc = "threw"
    /\ FetchAllFails

\* Lines 41-83: the fetchOutcomes calls have resolved, analyze goes on
FetchesResolve ==
    /\ fopc = "returned"
    /\ Analyze

LrnNext ==
    \/ FetchAllFails
    \/ Analyze
    \/ AnalysisCall
    \/ LlmCallFails
    \/ StorePattern
    \/ ReadCurrentPrompt
    \/ ImprovePrompt

----------------------------------------------------------------------------
(* Two Learner runs storing their patterns at the same time.  addPattern   *)
(* awaits fs.readFile and then fs.writeFile, so the calls of two runs on   *)
(* the same prompts directory can interleave between the two.              *)

Runs == {1, 2}

\* analysis.patterns of run r: one or two patterns; sampleSize tells the
\* runs apart
RunPatterns(r) ==
    {<<[description |-> "Use action verbs", sampleSize |-> 4 + r]>>,
     <<[description |-> "Use action verbs", sampleSize |-> 4 + r],
       [description |-> "Include numbers", sampleSize |-> 4 + r]>>}

RmwIdle ==
    /\ runAnalysis = [r \in Runs |-> <<>>]
    /\ runIdx = [r \in Runs |-> 0]
    /\ runPc = [r \in Runs |-> "off"]
    /\ runRead = [r \in Runs |-> <<>>]
    /\ addLog = <<>>

RmwInit ==
    /\ runAnalysis \in {f \in [Runs -> UNION {RunPatterns(r) : r \in Runs}] :
                            \A r \in Runs : f[r] \in RunPatterns(r)}
    /\ runIdx = [r \in Runs |-> 1]
    /\ runPc = [r \in Runs |-> "store"]
    /\ runRead = [r \in Runs |-> <<>>]
    /\ addLog = <<>>

\* Variant: a run reads patterns.json for its first pattern only and keeps
\* the list for the next
ReadPatternsCached ==
    \E r \in Runs :
        /\ runPc[r] = "store"
        /\ runIdx[r] <= Len(runAnalysis[r])
        /\ runRead' = [runRead EXCEPT ![r] = IF runIdx[r] = 1 THEN patternsFile.patterns
                                             ELSE runRead[r]]
        /\ runPc' = [runPc EXCEPT ![r] = "read"]
        /\ addLog' = Append(addLog, [run |-> r, step |-> "read"])
        /\ UNCHANGED <<notRmwVars, pmVars, runAnalysis, runIdx>>

\* improver.js:137 and prompt-manager.js:148: a run calls addPattern, which
\* reads and parses patterns.json
ReadPatterns ==
    \E r \in Runs :
        /\ runPc[r] = "store"
        /\ runIdx[r] <= Len(runAnalysis[r])
        /\ runRead' = [runRead EXCEPT ![r] = patternsFile.patterns]
        /\ runPc' = [runPc EXCEPT ![r] = "read"]
        /\ addLog' = Append(addLog, [run |-> r, step |-> "read"])
        /\ UNCHANGED <<notRmwVars, pmVars, runAnalysis, runIdx>>

\* prompt-manager.js:149-153: the pattern is pushed to the list that was
\* read and the list is written back; the loop of the run goes on
WritePatterns ==
    \E r \in Runs :
        /\ runPc[r] = "read"
        /\ LET list == Append(runRead[r], Stamped(runAnalysis[r][runIdx[r]], today)) IN
            /\ patternsFile' = PatternsFile(list)
            /\ fsWrites' = Append(fsWrites, Write("patterns.json", "", list))
        /\ runIdx' = [runIdx EXCEPT ![r] = runIdx[r] + 1]
        /\ runPc' = [runPc EXCEPT ![r] = IF runIdx[r] = Len(runAnalysis[r])
                                         THEN "stored" ELSE "store"]
        /\ addLog' = Append(addLog, [run |-> r, step |-> "write"])
        /\ UNCHANGED <<notRmwVars, files, today, pmLog, pmResult, runAnalysis, runRead>>

RmwNext ==
    \/ ReadPatterns
    \/ WritePatterns

----------------------------------------------------------------------------
(* runCommand (src/cli/run.js): one cycle of Tracker, Learner, Generator.  *)

\* What a cycle feeds its phases: at most one outcome to track, at most one
\* candidate, the default validator chain, maxRetries as the command passes it
CycleOutcomes == {<<>>} \cup {<<o>> : o \in {k \in OutcomeKinds : k.baseline = Baseline(300)}}
CyclePages == {<<>>, <<1>>}
CycleMaxRetries == {1}

Started(phase) == [phase |-> phase, event |-> "started"]
Finished(phase) == [phase |-> phase, event |-> "finished"]

RunIdle ==
    /\ cpc = "off"
    /\ phases = <<>>
    /\ promptBefore = NoPrompt

RunInit ==
    /\ cpc = "idle"
    /\ phases = <<>>
    /\ promptBefore = NoPrompt

\* Lines 61-86: setup (promptManager.initialize()), then Phase 1 is awaited
RunCommand ==
    /\ cpc = "idle"
    /\ DoInitialize
    /\ pmLog' = Append(pmLog, Call("initialize", "", TRUE))
    /\ tOutcomes' \in CycleOutcomes
    /\ tTestMode' \in BOOLEAN
    /\ tpc' = "idle"
    /\ phases' = Append(phases, Started("Tracker"))
    /\ cpc' = "feedback"
    /\ UNCHANGED <<genVars, lenVars, rmwVars, fbVars, foVars, lrnVars, today, pmResult,
                   generatedPages, tIdx, tracked, highPerformers, tPerf, tEvents,
                   tFetched, promptBefore>>

\* Variant: Phase 3 is entered as soon as the Tracker has returned
GeneratePhaseEarly ==
    /\ cpc = "learn"
    /\ tpc = "returned"
    /\ gpc = "off"
    /\ pages' \in CyclePages
    /\ optMaxRetries' \in CycleMaxRetries
    /\ validators' = DefaultChain
    /\ gpc' = "idle"
    /\ phases' = phases \o <<Started("Generator")>>
    /\ cpc' = "generate"
    /\ UNCHANGED <<lenVars, rmwVars, trkVars, fbVars, pmVars, foVars, lrnVars, maxRetries,
                   pageIdx, results, failures, attempt, lastReason, failureHistory,
                   generated, failed, vIdx, requests, vcalls, events, outcomeOf,
                   systemPrompt, mergedMeta, metas, promptBefore>>

\* Lines 88-105: trackPerformance has returned (with any counts), Phase 2 is
\* awaited
LearnPhase ==
    /\ cpc = "feedback"
    /\ tpc = "returned"
    /\ apc' = "idle"
    /\ promptBefore' = SystemPrompt(files, patternsFile)
    /\ phases' = phases \o <<Finished("Tracker"), Started("Learner")>>
    /\ cpc' = "learn"
    /\ UNCHANGED <<genVars, lenVars, rmwVars, trkVars, fbVars, pmVars, foVars,
                   highCTROutcomes, analysis, aIdx, llmCalls, aEvents, aResult,
                   rewriteRequest>>

\* Lines 107-181: analyze has returned (a result or null), the candidates are
\* fetched and Phase 3 is awaited
GeneratePhase ==
    /\ cpc = "learn"
    /\ apc = "returned"
    /\ pages' \in CyclePages
    /\ optMaxRetries' \in CycleMaxRetries
    /\ validators' = DefaultChain
    /\ gpc' = "idle"
    /\ phases' = phases \o <<Finished("Learner"), Started("Generator")>>
    /\ cpc' = "generate"
    /\ UNCHANGED <<lenVars, rmwVars, trkVars, fbVars, pmVars, foVars, lrnVars, maxRetries,
                   pageIdx, results, failures, attempt, lastReason, failureHistory,
                   generated, failed, vIdx, requests, vcalls, events, outcomeOf,
                   systemPrompt, mergedMeta, metas, promptBefore>>

\* Lines 183-235: generate has returned, meta.json is written, 'Run Complete'
RunComplete ==
    /\ cpc = "generate"
    /\ gpc = "returned"
    /\ phases' = Append(phases, Finished("Generator"))
    /\ cpc' = "done"
    /\ UNCHANGED <<genVars, lenVars, rmwVars, trkVars, fbVars, pmVars, foVars, lrnVars,
                   promptBefore>>

\* Lines 245-252: a phase threw, the command fails and exits
RunFails ==
    /\ \/ cpc = "feedback" /\ tpc = "threw"
       \/ cpc = "learn" /\ apc \in {"threw", "fetch threw"}
    /\ cpc' = "failed"
    /\ UNCHANGED <<genVars, lenVars, rmwVars, trkVars, fbVars, pmVars, foVars, lrnVars,
                   phases, promptBefore>>

RunNext ==
    \/ RunCommand
    \/ LearnPhase
    \/ GeneratePhase
    \/ RunComplete
    \/ RunFails
    \/ TrkNext
    \/ LrnNext
    \/ GenNext

----------------------------------------------------------------------------
(* Specifications *)

\* One call of generate
Init == GenInit /\ LenIdle /\ RmwIdle /\ TrkIdle /\ FbIdle /\ PmReady /\ FoIdle /\ LrnIdle /\ RunIdle

Next == GenNext

Spec == Init /\ [][Next]_vars

\* One call of generate in which every request and every validator call
\* returns or throws, so that generate always takes its next step
SpecFair == Init /\ [][Next]_vars /\ WF_vars(Next)

\* One call of a length validator
InitLength == GenIdle /\ LenInit /\ RmwIdle /\ TrkIdle /\ FbIdle /\ PmIdle /\ FoIdle /\ LrnIdle /\ RunIdle

SpecLength == InitLength /\ [][LenNext]_vars

\* One call of trackPerformance
InitTracker == GenIdle /\ LenIdle /\ RmwIdle /\ TrkInit /\ FbIdle /\ PmIdle /\ FoIdle /\ LrnIdle /\ RunIdle

SpecTracker == InitTracker /\ [][TrkNext]_vars

\* One run of feedbackCommand, with the call of trackPerformance it makes
InitFeedback == GenIdle /\ LenIdle /\ RmwIdle /\ TrkIdle /\ FbInit /\ PmIdle /\ FoIdle /\ LrnIdle /\ RunIdle

SpecFeedback == InitFeedback /\ [][FbNext]_vars

\* A sequence of calls on one PromptManager
InitPrompt == GenIdle /\ LenIdle /\ RmwIdle /\ TrkIdle /\ FbIdle /\ PmInit /\ FoIdle /\ LrnIdle /\ RunIdle

SpecPrompt == InitPrompt /\ [][PmNext]_vars

\* One call of fetchOutcomes
InitFetch == GenIdle /\ LenIdle /\ RmwIdle /\ TrkIdle /\ FbIdle /\ PmIdle /\ FoInit /\ LrnIdle /\ RunIdle

SpecFetch == InitFetch /\ [][FoNext]_vars

\* One call of analyze, on a PromptManager that has been initialized
InitLearner ==
    /\ GenIdle /\ LenIdle /\ RmwIdle /\ TrkIdle /\ FbIdle /\ PmInit /\ Readable /\ FoIdle
    /\ LrnInit /\ RunIdle

SpecLearner == InitLearner /\ [][LrnNext]_vars

\* One run of a phase that fetches: trackPerformance, or analyze with one of
\* its fetchOutcomes calls followed request by request
InitFetching ==
    /\ GenIdle /\ LenIdle /\ RmwIdle /\ FbIdle /\ RunIdle
    /\ \/ TrkInit /\ PmIdle /\ FoIdle /\ LrnIdle
       \/ TrkIdle /\ PmInit /\ Readable /\ FoInit /\ LrnInit

FetchingNext ==
    \/ TrkNext
    \/ FoNext
    \/ FetchesReject
    \/ FetchesResolve
    \/ AnalysisCall
    \/ LlmCallFails
    \/ StorePattern
    \/ ReadCurrentPrompt
    \/ ImprovePrompt

SpecFetching == InitFetching /\ [][FetchingNext]_vars

\* Two Learner runs on one prompts directory, each at its addPattern loop
InitConcurrent ==
    /\ GenIdle /\ LenIdle /\ TrkIdle /\ FbIdle /\ FoIdle /\ LrnIdle /\ RunIdle
    /\ PmInit /\ Readable /\ RmwInit

SpecConcurrent == InitConcurrent /\ [][RmwNext]_vars

\* One cycle of runCommand; every awaited call settles, so the command
\* always takes its next step
InitCycle ==
    /\ GenIdle /\ LenIdle /\ RmwIdle /\ TrkIdle /\ FbIdle /\ FoIdle /\ LrnIdle /\ RunInit
    /\ PmInit /\ (files["base.md"].exists <=> files["quality.md"].exists)

SpecCycle == InitCycle /\ [][RunNext]_vars /\ WF_vars(RunNext)

----------------------------------------------------------------------------
(* Generator: observations used by the properties *)

\* The loop of generate has just finished a page: the logs are that page's
PageFinished == gpc = "loop" /\ pageIdx >= 2 /\ pageIdx <= Len(pages) + 1

LastPage == pageIdx - 1

LastFailure == failures[Len(failures)]

\* Number of entries of a list of records carrying url u
CountUrl(list, u) == Cardinality({i \in 1..Len(list) : list[i].url = u})

\* The validator calls of attempt k of the current page, as indices of vcalls
CallsOf(k) == {i \in 1..Len(vcalls) : vcalls[i].attempt = k}

\* Some validator returned pass == false at attempt k
FailedValidation(k) ==
    \E i \in CallsOf(k) : ~vcalls[i].threw /\ ~vcalls[i].result.pass

EventsNamed(n) == {i \in 1..Len(events) : events[i].name = n}

----------------------------------------------------------------------------
(* Properties of the Generator *)

\* C1: when generate returns, every input candidate is in exactly one of
\* results and failures, so |results| + |failures| = |pages|, whatever mix of
\* successes, exhaustions and exceptions occurred.
C1_ExactlyOneOutcome ==
    gpc = "returned" =>
        /\ Len(results) + Len(failures) = Len(pages)
        /\ \A i \in 1..Len(pages) :
              CountUrl(results, pages[i]) + CountUrl(failures, pages[i]) = 1

\* C1 witness: a batch of two returned, the first page ended in an exception
\* and the second one was still processed and succeeded.
C1_Witness ==
    /\ gpc = "returned"
    /\ Len(pages) >= 2
    /\ outcomeOf[1] = "error"
    /\ outcomeOf[2] = "success"
    /\ Len(results) = 1

\* C2 (as claimed): when every attempt of a candidate fails validation, the
\* candidate yields one Failure with attempts = maxRetries and
\* history.length = maxRetries and one 'Generation Failed' event with that
\* history.
C2_AsClaimed ==
    (/\ PageFinished
     /\ Len(requests) >= 1
     /\ \A k \in 1..Len(requests) : FailedValidation(k))
    => /\ outcomeOf[LastPage] = "exhausted"
       /\ CountUrl(failures, pages[LastPage]) = 1
       /\ LastFailure.attempts = maxRetries
       /\ Len(LastFailure.history) = maxRetries
       /\ Cardinality(EventsNamed("Generation Failed")) = 1
       /\ \A i \in EventsNamed("Generation Failed") :
              events[i].history = LastFailure.history

\* C3: if the first request of a candidate throws, its outcome is a Failure
\* with attempts = 0, lastReason = the message and a history of the single
\* entry {attempt: 0, reason: message}, for every maxRetries; one
\* 'Generation Error' event is emitted and no second request is made.
C3_FirstRequestThrows ==
    (/\ PageFinished
     /\ Len(requests) >= 1
     /\ requests[1].outcome = "threw")
    => /\ outcomeOf[LastPage] = "error"
       /\ LastFailure.url = pages[LastPage]
       /\ LastFailure.attempts = 0
       /\ LastFailure.lastReason = Str(RequestError)
       /\ LastFailure.history = <<[attempt |-> 0, reason |-> Str(RequestError)]>>
       /\ CountUrl(failures, pages[LastPage]) = 1
       /\ CountUrl(results, pages[LastPage]) = 0
       /\ Len(requests) = 1
       /\ Len(events) = 1
       /\ events[1].name = "Generation Error"
       /\ events[1].error = RequestError

\* C3 witness: the first request of a page threw although three attempts
\* were allowed.
C3_Witness ==
    /\ PageFinished
    /\ maxRetries = DefaultMaxRetries
    /\ Len(requests) = 1
    /\ requests[1].outcome = "threw"
    /\ LastFailure.attempts = 0

\* C4: the request of attempt k > 1 carries the rejection reason of every
\* prior attempt 1..k-1, in attempt order; the request of attempt 1 carries
\* no rejection block.
C4_FullHistoryReplayed ==
    \A k \in 1..Len(requests) :
        LET m == requests[k].messages IN
        /\ requests[k].attempt = k
        /\ k = 1 => Len(m) = 2
        /\ k > 1 =>
            /\ Len(m) = 3
            /\ Len(m[3].rejections) = k - 1
            /\ \A j \in 1..(k - 1) :
                /\ m[3].rejections[j].attempt = j
                /\ \E i \in CallsOf(j) :
                    /\ ~vcalls[i].threw
                    /\ ~vcalls[i].result.pass
                    /\ m[3].rejections[j].reason = vcalls[i].result.reason

\* C4 witness: a third request was sent after two attempts rejected for
\* different reasons.
C4_Witness ==
    /\ Len(requests) = 3
    /\ Len(requests[3].messages) = 3
    /\ requests[3].messages[3].rejections[1].reason
         # requests[3].messages[3].rejections[2].reason

\* C5: within one attempt the validators are invoked in chain order, no
\* validator is invoked after the first failing one, and the reason recorded
\* for the attempt is the reason of that first failing validator.
C5_ChainShortCircuits ==
    /\ \A i \in 1..Len(vcalls) :
        IF i > 1 /\ vcalls[i - 1].attempt = vcalls[i].attempt
        THEN /\ vcalls[i].validator = vcalls[i - 1].validator + 1
             /\ ~vcalls[i - 1].threw
             /\ vcalls[i - 1].result.pass
        ELSE vcalls[i].validator = 1
    /\ \A h \in 1..Len(failureHistory) :
        \E i \in CallsOf(failureHistory[h].attempt) :
            /\ ~vcalls[i].result.pass
            /\ failureHistory[h].reason = vcalls[i].result.reason
            /\ \A j \in CallsOf(failureHistory[h].attempt) : j <= i

\* C5 witness: the first of two validators rejected and the attempt was
\* recorded as failed without the second being invoked.
C5_Witness ==
    /\ validators >= 2
    /\ Len(failureHistory) = 1
    /\ Len(vcalls) = 1
    /\ vcalls[1].validator = 1
    /\ ~vcalls[1].result.pass
    /\ failureHistory[1].reason = Str(ReasonText(1))

\* C6 (as claimed): a candidate is emitted as Success only if every validator
\* of the chain returned pass = true at that attempt; a result with
\* pass = false makes the attempt a failed one, with or without a reason.
C6_AsClaimed ==
    (PageFinished /\ outcomeOf[LastPage] = "success")
    => /\ Cardinality(EventsNamed("Generated")) = 1
       /\ Cardinality(CallsOf(attempt)) = validators
       /\ \A i \in CallsOf(attempt) : ~vcalls[i].threw /\ vcalls[i].result.pass

----------------------------------------------------------------------------
(* Properties of lengthValidator *)

\* C7: the validator passes iff min <= len(D) <= max, both bounds inclusive,
\* with min = 140 and max = 160 when not given; on failure the reason names
\* the actual length and the bounds.
C7_LengthIffWithinBounds ==
    lpc = "called" =>
        LET len == Len(lDescription)
            min == IF lOptions.min.given THEN lOptions.min.v ELSE 140
            max == IF lOptions.max.given THEN lOptions.max.v ELSE 160
        IN /\ lResult.pass <=> (min <= len /\ len <= max)
           /\ ~lResult.pass =>
                lResult.reason = Str("Description is " \o ToString(len)
                    \o " chars, must be " \o ToString(min) \o "-" \o ToString(max))

\* C7 witness: with the default bounds a description of exactly 140
\* characters has been validated and passed.
C7_Witness ==
    /\ lpc = "called"
    /\ ~lOptions.min.given
    /\ ~lOptions.max.given
    /\ Len(lDescription) = 140
    /\ lResult.pass

----------------------------------------------------------------------------
(* Tracker: observations used by the properties *)

\* The loop has just processed a record: tPerf and the last event are its
TrackProcessed == tpc = "loop" /\ tIdx >= 2

LastRecord == generatedPages[tIdx - 1]

LastTrackEvent == tEvents[Len(tEvents)]

Classes == {"High CTR", "Improved", "No Improvement"}

ClassifiedEvents == {i \in 1..Len(tEvents) : tEvents[i].name \in Classes}

EventsNamedByTracker(n) == {i \in 1..Len(tEvents) : tEvents[i].name = n}

EventsFor(p) ==
    {i \in 1..Len(tEvents) :
        tEvents[i].name \in Classes \cup {"Insufficient Data"} /\ tEvents[i].page = p}

----------------------------------------------------------------------------
(* Properties of the Tracker *)

C9_AsClaimed ==
    (tpc = "returned" /\ ~tTestMode) =>
        \A i \in 1..Len(tOutcomes) :
            (/\ tOutcomes[i].name = "Generated"
             /\ tOutcomes[i].hasUrl
             /\ tOutcomes[i].described
             /\ ~tOutcomes[i].baseline.has)
            => /\ EventsFor(i) # {}
               /\ \A k \in EventsFor(i) :
                    tEvents[k].name \in Classes =>
                        /\ tEvents[k].name = "High CTR" <=> tEvents[k].ctr >= 500
                        /\ tEvents[k].name = "Improved" <=>
                              (300 <= tEvents[k].ctr /\ tEvents[k].ctr < 500)
                        /\ tEvents[k].name = "No Improvement" <=> tEvents[k].ctr < 300

----------------------------------------------------------------------------
(* feedbackCommand: observations used by the properties *)

\* The entry of page p may be tracked: no failed: true, old enough
MayBeTracked(p) ==
    /\ ~metaJson[p].failed
    /\ metaJson[p].generatedAt.has
    /\ metaJson[p].generatedAt.days >= minDays

\* The events of the tracking run that are about a page
PageEvents ==
    {k \in 1..Len(tEvents) : tEvents[k].name \in Classes \cup {"Insufficient Data"}}

----------------------------------------------------------------------------
\* C11: metrics are fetched and events emitted only for entries of meta.json
\* that lack failed: true and were generated at least minDays ago; a younger
\* entry or a Failure record causes no fetch and no event (no 'Insufficient
\* Data' either) and is not counted in tracked.
C11_OnlyEligibleEntriesTracked ==
    fpc # "off" =>
        /\ \A k \in PageEvents : MayBeTracked(tEvents[k].page)
        /\ \A k \in 1..Len(tFetched) : MayBeTracked(tFetched[k])
        /\ tracked <= Cardinality({p \in 1..Len(metaJson) : MayBeTracked(p)})
        /\ tracked <= Cardinality({tEvents[k].page : k \in PageEvents})

\* A run over a Failure record that carries an old generatedAt, an entry one
\* day too young and an entry old enough: only the last is fetched and counted
C11_Witness ==
    /\ fpc = "returned"
    /\ Len(metaJson) = 3
    /\ metaJson[1].failed /\ metaJson[1].generatedAt = DaysAgo(7)
    /\ ~metaJson[2].failed /\ metaJson[2].generatedAt.days < minDays
    /\ metaJson[2].runId
    /\ tOutcomes[2].name = "Generated"
    /\ tOutcomes[1].name = "Generated"
    /\ tFetched = <<3>>
    /\ tracked = 1
    /\ Len(tEvents) = 2

----------------------------------------------------------------------------
----------------------------------------------------------------------------
(* PromptManager: observations used by the properties *)

\* This step is a call of op that resolved
Resolved(op) ==
    /\ Len(pmLog') = Len(pmLog) + 1
    /\ pmLog'[Len(pmLog')].op = op
    /\ pmLog'[Len(pmLog')].ok

\* The argument of the call this step makes
Argument == pmLog'[Len(pmLog')].arg

\* The writes this step makes, in order
NewWrites == SubSeq(fsWrites', Len(fsWrites) + 1, Len(fsWrites'))

IsPrefix(s, t) == Len(s) <= Len(t) /\ SubSeq(t, 1, Len(s)) = s

\* The calls made so far, by name, all resolved
CallsMade(ops) ==
    /\ Len(pmLog) = Len(ops)
    /\ \A i \in 1..Len(ops) : pmLog[i].op = ops[i] /\ pmLog[i].ok

----------------------------------------------------------------------------
\* C15: a call updateQualityPrompt(new) made while quality.md holds old makes
\* exactly two writes, first old to the backup named after the day of the
\* call, then new to quality.md; after it the backup holds old and quality.md
\* holds new.
C15_BackupBeforeOverwrite ==
    [][Resolved("updateQualityPrompt") =>
          LET old == files["quality.md"].content
              new == Argument
          IN /\ NewWrites = <<Write(BackupPath(today), old, <<>>),
                              Write("quality.md", new, <<>>)>>
             /\ files'[BackupPath(today)] = File(old)
             /\ files'["quality.md"] = File(new)]_vars

\* C15 witness: the initial guidelines were replaced on day 2; the backup of
\* day 2 holds them and quality.md holds the new text.
C15_Witness ==
    /\ CallsMade(<<"updateQualityPrompt">>)
    /\ today = 2
    /\ fsWrites[1] = Write(BackupPath(2), QUALITY_PROMPT_INITIAL, <<>>)
    /\ fsWrites[2].path = "quality.md"
    /\ files[BackupPath(2)] = File(QUALITY_PROMPT_INITIAL)
    /\ files["quality.md"] = File(pmLog[1].arg)
    /\ ~files[BackupPath(1)].exists

\* C16: under calls made one at a time the pattern list only grows at its
\* end: the list before a step is a prefix of the list after it, only
\* addPattern changes it, and addPattern(p) appends exactly p with addedAt.
C16_PatternsAppendOnly ==
    [][patternsFile.exists =>
          /\ patternsFile'.exists
          /\ IsPrefix(patternsFile.patterns, patternsFile'.patterns)
          /\ IF Resolved("addPattern")
             THEN patternsFile'.patterns
                    = Append(patternsFile.patterns,
                             [description |-> Argument.description,
                              sampleSize |-> Argument.sampleSize,
                              addedAt |-> today])
             ELSE patternsFile'.patterns = patternsFile.patterns]_vars

\* C16 witness: a list of one pattern has grown to three by two addPattern
\* calls on different days; the first entry is the one it started with.
C16_Witness ==
    /\ Len(pmLog) = 3
    /\ pmLog[1].op = "addPattern" /\ pmLog[3].op = "addPattern"
    /\ pmLog[2].op = "updateQualityPrompt"
    /\ Len(patternsFile.patterns) = 3
    /\ patternsFile.patterns[1] = EarlierPattern
    /\ patternsFile.patterns[2].description = pmLog[1].arg.description
    /\ patternsFile.patterns[2].addedAt = 1
    /\ patternsFile.patterns[3].description = pmLog[3].arg.description
    /\ patternsFile.patterns[3].addedAt = 2

\* C17: base.md, once there, keeps its content; initialize writes a file only
\* when it is absent; base.md is written by nothing else, quality.md by
\* nothing else but updateQualityPrompt and patterns.json by nothing else
\* but addPattern.
C17_BaseNeverRewritten ==
    [][/\ files["base.md"].exists => files'["base.md"] = files["base.md"]
       /\ \A k \in 1..Len(NewWrites) :
            LET path == NewWrites[k].path IN
            /\ path = "base.md" =>
                  Resolved("initialize") /\ ~files["base.md"].exists
            /\ path = "quality.md" =>
                  \/ Resolved("initialize") /\ ~files["quality.md"].exists
                  \/ Resolved("updateQualityPrompt")
            /\ path = "patterns.json" =>
                  \/ Resolved("initialize") /\ ~patternsFile.exists
                  \/ Resolved("addPattern")
       /\ files'["quality.md"] # files["quality.md"] => NewWrites # <<>>
       /\ patternsFile' # patternsFile => NewWrites # <<>>]_vars

\* C17 witness: a site's own base.md has been through initialize,
\* updateQualityPrompt and addPattern and still holds what it held.
C17_Witness ==
    /\ CallsMade(<<"initialize", "updateQualityPrompt", "addPattern">>)
    /\ files["base.md"] = File("site base prompt")
    /\ Len(fsWrites) = 4
    /\ fsWrites[1] = Write("quality.md", QUALITY_PROMPT_INITIAL, <<>>)
    /\ \A k \in 1..Len(fsWrites) : fsWrites[k].path # "base.md"

----------------------------------------------------------------------------
(* Learner: observations used by the properties *)

\* The data of the bodies received, joined in the order of the requests
RECURSIVE Concatenated(_)
Concatenated(bodies) ==
    IF bodies = <<>> THEN <<>> ELSE Head(bodies).data \o Concatenated(Tail(bodies))

ReportsMore(body) == body.pagination /\ body.hasMore

----------------------------------------------------------------------------
\* C14: fetchOutcomes asks for offsets 0, 100, 200, ... of one category with
\* limit 100, asks again exactly while the body received last reports
\* hasMore, returns after the first body that does not, and what it returns
\* is the data of the bodies joined in request order, nothing dropped or
\* repeated.
C14_PagesMerged ==
    fopc \in {"loop", "returned", "threw"} =>
        /\ \A k \in 1..Len(foQueries) :
              foQueries[k] = [name |-> foName, limit |-> 100, offset |-> (k - 1) * 100]
        /\ \A k \in 1..(Len(foResponses) - 1) : ReportsMore(foResponses[k])
        /\ fopc = "loop" =>
              /\ Len(foQueries) = Len(foResponses)
              /\ foResponses # <<>> => ReportsMore(foResponses[Len(foResponses)])
        /\ fopc = "returned" =>
              /\ Len(foQueries) = Len(foResponses)
              /\ foResponses # <<>>
              /\ ~ReportsMore(foResponses[Len(foResponses)])
        /\ fopc = "threw" => Len(foQueries) = Len(foResponses) + 1
        /\ foResults = Concatenated(foResponses)
        /\ \A i, j \in 1..Len(foResults) : foResults[i] = foResults[j] => i = j

\* C14 witness: two full pages reporting more and a last page of one record:
\* three requests, 201 records returned.
C14_Witness ==
    /\ fopc = "returned"
    /\ Len(foQueries) = 3
    /\ foQueries[3].offset = 200
    /\ Len(foResponses[1].data) = 100
    /\ Len(foResponses[2].data) = 100
    /\ foResults = [i \in 1..201 |-> i]

\* C13: when fewer than 5 'High CTR' outcomes were fetched, analyze has
\* emitted 'Insufficient Data' and nothing else, has returned null, has made
\* no request to the LLM and no call on the PromptManager, and no prompt file
\* has been written.
C13_TooFewLeavesPromptsAlone ==
    (apc \in {"analyse", "store", "improve", "returned", "threw"}
        /\ Len(highCTROutcomes) < 5) =>
        /\ apc = "returned"
        /\ aResult = ReturnedNull
        /\ Len(aEvents) = 1
        /\ aEvents[1].name = "Insufficient Data"
        /\ aEvents[1].needed = 5
        /\ aEvents[1].highPerformers < 5
        /\ llmCalls = 0
        /\ pmLog = <<>>
        /\ fsWrites = <<>>

\* C13 witness: four outcomes, three of them with a description: analyze
\* returned null after 'Insufficient Data' { highPerformers: 3, needed: 5 }.
C13_Witness ==
    /\ apc = "returned"
    /\ Len(highCTROutcomes) = 4
    /\ aEvents = <<[name |-> "Insufficient Data", highPerformers |-> 3, needed |-> 5]>>
    /\ aResult = ReturnedNull
    /\ llmCalls = 0
    /\ fsWrites = <<>>
    /\ patternsFile = PatternsFile(<<EarlierPattern>>)

----------------------------------------------------------------------------
(* Generator: the events of the validators *)

\* validators.js lines 8-13 and 69-74: the event a built-in validator records
\* on the page's group for a call that returned (the chain being the length
\* validator followed by the quality validator)
ValidatorOutcome(call) ==
    [name |-> (IF call.validator = 1 THEN "Length" ELSE "Quality")
              \o (IF call.result.pass THEN " Passed" ELSE " Failed"),
     attempt |-> call.attempt]

\* The attempts of the current page in which a validator recorded a failure
AttemptsFailedByValidator ==
    {vcalls[i].attempt : i \in {j \in 1..Len(vcalls) :
        ~vcalls[j].threw /\ ValidatorOutcome(vcalls[j]).name
                              \in {"Length Failed", "Quality Failed"}}}

----------------------------------------------------------------------------
\* C18: generate emits no 'Validation Failed' event for a candidate; an
\* attempt whose validator recorded 'Length Failed' or 'Quality Failed' has no
\* 'Validation Failed' event as well.
C18_AsClaimed ==
    /\ EventsNamed("Validation Failed") = {}
    /\ \A k \in EventsNamed("Validation Failed") :
          events[k].attempt \notin AttemptsFailedByValidator

----------------------------------------------------------------------------
(* Generator: the retry state machine of a page *)

Pending == [s |-> "Pending", n |-> 0]
Attempting(n) == [s |-> "Attempting", n |-> n]
Succeeded == [s |-> "Succeeded", n |-> 0]
Failed == [s |-> "Failed", n |-> 0]

\* Where page i is: not begun, in attempt n of generateWithRetry, or done
RetryState(i) ==
    IF outcomeOf[i] = "success" THEN Succeeded
    ELSE IF outcomeOf[i] \in {"exhausted", "error"} THEN Failed
    ELSE IF i = pageIdx /\ gpc \in {"attempt", "validate", "decide"}
         THEN Attempting(attempt)
    ELSE Pending

\* One step of the machine of page i
RetryStep(i) ==
    LET a == RetryState(i)
        b == RetryState(i)'
    IN \/ a = b
       \/ a = Pending /\ b = Attempting(1)
       \/ a.s = "Attempting" /\ b \in {Succeeded, Failed, Attempting(a.n + 1)}

----------------------------------------------------------------------------
\* C20: the machine of every page starts in Attempting(1), moves from
\* Attempting(n) only to Succeeded, Attempting(n+1) or Failed and never
\* leaves Succeeded or Failed; a page gets at most maxRetries requests (none
\* when maxRetries is not positive); and when every request and validator
\* call returns, every page reaches Succeeded or Failed.
C20_RetryMachineTerminates ==
    /\ [][\A i \in 1..Len(pages) : RetryStep(i)]_vars
    /\ [](gpc \in {"attempt", "validate", "decide", "loop", "returned"} =>
            /\ Len(requests) <= (IF maxRetries > 0 THEN maxRetries ELSE 0)
            /\ \A k \in 1..Len(requests) : requests[k].attempt = k)
    /\ \A i \in 1..MaxPages :
          (gpc = "idle" /\ i <= Len(pages)) ~> (RetryState(i).s \in {"Succeeded", "Failed"})

\* C20 witness: a page rejected in attempts 1 and 2 of 2 is Failed after
\* exactly two requests, and the page before it is Succeeded
C20_Witness ==
    /\ gpc = "returned"
    /\ Len(pages) = 2
    /\ maxRetries = 2
    /\ RetryState(1) = Succeeded
    /\ RetryState(2) = Failed
    /\ outcomeOf[2] = "exhausted"
    /\ Len(requests) = 2
    /\ Len(failureHistory) = 2

----------------------------------------------------------------------------
(* runCommand: observations used by the properties *)

\* The patterns of the analysis as addPattern stored them in this cycle
LearnedNow ==
    [k \in 1..Len(analysis) |->
        [description |-> analysis[k].description,
         sampleSize |-> Len(HighPerformers(highCTROutcomes)),
         addedAt |-> today]]

----------------------------------------------------------------------------
C19_WitnessLearned ==
    /\ cpc = "done"
    /\ aResult = Returned(2)
    /\ Len(pages) = 1
    /\ Len(systemPrompt.learned) = 3
    /\ systemPrompt.quality \in QualityTexts
    /\ promptBefore.quality = QUALITY_PROMPT_INITIAL

----------------------------------------------------------------------------
(* Generator: order of the candidates and of the attempts *)

\* A candidate is being processed: generateWithRetry is running for it
InProgress == gpc \in {"attempt", "validate", "decide"}

\* The 'Validation Failed' events of the current candidate, in emission order
ValidationFailedEvents ==
    SelectSeq(events, LAMBDA e : e.name = "Validation Failed")

\* C21: candidates are processed one at a time: while a candidate is in
\* progress every preceding candidate has its terminal outcome and no later
\* one has any, and every request and event logged belongs to it; no request,
\* validator call or event is added before the preceding candidates are
\* terminal; within the candidate the requests, the FailureHistory entries
\* and the 'Validation Failed' events are in attempt order, the history after
\* k failed attempts having the attempt indices exactly 1, 2, ..., k.
C21_OneCandidateAtATime ==
    /\ [](InProgress =>
            /\ \A j \in 1..Len(pages) : outcomeOf[j] # "none" <=> j < pageIdx
            /\ \A k \in 1..Len(requests) :
                    requests[k].page = pages[pageIdx] /\ requests[k].attempt = k
            /\ \A k \in 1..Len(events) : events[k].page = pages[pageIdx]
            /\ \A k \in 1..(Len(vcalls) - 1) : vcalls[k].attempt <= vcalls[k + 1].attempt
            /\ Len(failureHistory) = attempt - 1
            /\ \A k \in 1..Len(failureHistory) : failureHistory[k].attempt = k
            /\ Len(ValidationFailedEvents) = Len(failureHistory)
            /\ \A k \in 1..Len(failureHistory) :
                    /\ ValidationFailedEvents[k].attempt = k
                    /\ ValidationFailedEvents[k].reason = failureHistory[k].reason)
    /\ [](PageFinished /\ outcomeOf[LastPage] = "exhausted" =>
            \A k \in 1..Len(LastFailure.history) : LastFailure.history[k].attempt = k)
    /\ [][(requests' # requests \/ vcalls' # vcalls \/ events' # events) /\ InProgress =>
            /\ \A j \in 1..(pageIdx - 1) : outcomeOf[j] # "none"
            /\ \A j \in pageIdx..Len(pages) : outcomeOf[j] = "none"]_vars

\* C21 witness: the second candidate has failed two attempts after the first
\* one, which had failed attempts of its own, reached its terminal outcome
C21_Witness ==
    /\ InProgress
    /\ pageIdx = 2
    /\ outcomeOf[1] = "exhausted"
    /\ Len(failures[1].history) = DefaultMaxRetries
    /\ Len(failureHistory) = 2
    /\ Len(requests) = 3

----------------------------------------------------------------------------
(* Generator: the meta of the validators *)

\* The meta of the validator calls that passed, merged in the order of the
\* calls from position i on
RECURSIVE MergeFrom(_, _)
MergeFrom(calls, i) ==
    IF i > Len(calls) THEN NoMeta
    ELSE LET rest == MergeFrom(calls, i + 1)
             c == calls[i] IN
         IF c.pass
         THEN [key \in MetaKeys |-> IF rest[key].has THEN rest[key] ELSE c.meta[key]]
         ELSE rest

\* The 'Generated' event of the candidate that has just succeeded
GeneratedEvent == events[Len(events)]

\* C22: the meta of a 'Generated' record is the merge, in chain order, of
\* the meta of the validators that passed in that attempt, a later validator's
\* value replacing an earlier one's for the same key; the meta returned
\* during an attempt that failed is in no later record: every value of the
\* record was written at the attempt the record is for, and neither the
\* results nor the failures carry any meta.
C22_MetaMergedInChainOrder ==
    PageFinished /\ outcomeOf[LastPage] = "success" =>
        /\ GeneratedEvent.name = "Generated"
        /\ GeneratedEvent.meta = MergeFrom(metas, 1)
        /\ \A key \in MetaKeys :
              GeneratedEvent.meta[key].has =>
                  GeneratedEvent.meta[key].at = GeneratedEvent.attempts
        /\ \A key \in MetaKeys :
              LET writers == {i \in 1..Len(metas) :
                                metas[i].pass /\ metas[i].meta[key].has} IN
              IF writers = {} THEN ~GeneratedEvent.meta[key].has
              ELSE GeneratedEvent.meta[key] =
                      metas[CHOOSE i \in writers : \A j \in writers : j <= i].meta[key]

\* The current attempt failed after a validator of it had returned meta
MetaOfFailedAttempt ==
    /\ gpc = "attempt"
    /\ attempt = 2
    /\ Len(metas) = 2
    /\ metas[1].meta["length"].has
    /\ ~metas[2].pass

\* C22 witness: an attempt had failed before; in the second attempt the
\* first validator wrote both keys and the second replaced one of them
C22_Witness ==
    /\ PageFinished
    /\ outcomeOf[LastPage] = "success"
    /\ GeneratedEvent.attempts = 2
    /\ Len(vcalls) = 4
    /\ ~vcalls[2].result.pass
    /\ Len(metas) = 2
    /\ GeneratedEvent.meta["qualityScore"] = ValueOf(2, 2)
    /\ GeneratedEvent.meta["length"] = ValueOf(1, 2)

----------------------------------------------------------------------------
(* Learner: the patterns stored by a run *)

\* The pattern lists a Learner run can start from
PriorLists == {<<>>, <<EarlierPattern>>}

\* The first n patterns of the analysis, as addPattern stores them
LearnedUpTo(n) == SubSeq(LearnedNow, 1, n)

\* The addPattern calls made, in order
AddPatternCalls == SelectSeq(pmLog, LAMBDA c : c.op = "addPattern")

\* C23: a Learner run that passed the data floor appends every pattern the
\* analysis returned, in the returned order and without dropping one that
\* repeats another, each with sampleSize the number of high performers and
\* the date of the day; while it stores them the list is the prior list
\* followed by the patterns stored so far, after the run it is the prior
\* list followed by all of them, and the count returned is the number of
\* patterns appended.
C23_EveryPatternAppended ==
    /\ [](apc \in {"store", "improve", "returned"} /\ aResult # ReturnedNull =>
            LET n == IF apc = "store" THEN aIdx - 1 ELSE Len(analysis) IN
            /\ \E prior \in PriorLists :
                    patternsFile.patterns = prior \o LearnedUpTo(n)
            /\ Len(AddPatternCalls) = n
            /\ \A k \in 1..n :
                    /\ AddPatternCalls[k].arg.description = analysis[k].description
                    /\ AddPatternCalls[k].arg.sampleSize
                            = Len(HighPerformers(highCTROutcomes))
            /\ apc = "returned" =>
                    /\ aResult = Returned(Len(analysis))
                    /\ aResult.patternsLearned = Len(AddPatternCalls)
                    /\ aEvents[Len(aEvents)].count = Len(AddPatternCalls))
    /\ [][apc = "store" /\ apc' = "store" =>
            patternsFile'.patterns
                = Append(patternsFile.patterns,
                         [description |-> analysis[aIdx].description,
                          sampleSize |-> Len(HighPerformers(highCTROutcomes)),
                          addedAt |-> today])]_vars

\* C23 witness: the analysis returned twice the pattern that was already
\* stored, and the run has appended both
C23_Witness ==
    /\ apc = "returned"
    /\ aResult = Returned(2)
    /\ Len(patternsFile.patterns) = 3
    /\ patternsFile.patterns[1] = EarlierPattern
    /\ patternsFile.patterns[2].description = EarlierPattern.description
    /\ patternsFile.patterns[3] = patternsFile.patterns[2]
    /\ patternsFile.patterns[3].sampleSize = 5

----------------------------------------------------------------------------
(* Learner: what the rewrite request is given *)

\* The quality layer alone, as a prompt text
QualityOnly(text) == [base |-> "", quality |-> text, learned |-> <<>>]

\* C24 (as claimed): the second request of the Learner is given the content
\* of the quality layer only, verbatim: neither the base layer nor the
\* rendered list of patterns is in it.
C24_AsClaimed ==
    rewriteRequest.sent =>
        rewriteRequest.currentPrompt = QualityOnly(pmResult.prompt.quality)

\* What the code does instead: the request is given the whole system prompt,
\* base layer and learned patterns included, as getSystemPrompt renders it
\* after the patterns of this run were stored
C24_WholePromptGiven ==
    rewriteRequest.sent =>
        /\ rewriteRequest.currentPrompt = pmResult.prompt
        /\ rewriteRequest.currentPrompt.base # ""
        /\ rewriteRequest.currentPrompt.base = files["base.md"].content
        /\ rewriteRequest.currentPrompt.learned = patternsFile.patterns

\* The run has rewritten the quality layer from a prompt that held the base
\* layer and three patterns
C24_Reached ==
    /\ apc = "returned"
    /\ rewriteRequest.sent
    /\ rewriteRequest.currentPrompt.base = BASE_PROMPT
    /\ Len(rewriteRequest.currentPrompt.learned) = 3
    /\ files["quality.md"].content \in QualityTexts

----------------------------------------------------------------------------
(* Tracker and Learner: a fetch that fails *)

\* The events the Tracker emitted for page p
TrackerEventsFor(p) ==
    {i \in 1..Len(tEvents) : tEvents[i].name # "Tracking Complete" /\ tEvents[i].page = p}

\* C25: a fetch that fails is not retried and not swallowed.  Learner: every
\* request of fetchOutcomes is made once; a request that is not answered ok
\* is the last one, fetchOutcomes never returns after it, and the only step
\* analyze takes then is to throw, having made no LLM request, no call on
\* the PromptManager and no write to a prompt file, and returning nothing.
\* Tracker: no page's metrics are fetched twice; after a fetch that threw,
\* trackPerformance takes no further step: no event for that page, no
\* 'Tracking Complete', no return.
C25_FailedFetchThrows ==
    /\ [](/\ \A i, j \in 1..Len(foQueries) : foQueries[i] = foQueries[j] => i = j
          /\ fopc = "returned" => Len(foQueries) = Len(foResponses)
          /\ Len(foQueries) > Len(foResponses) =>
                /\ fopc = "threw"
                /\ Len(foQueries) = Len(foResponses) + 1
                /\ apc \in {"idle", "fetch threw"}
          /\ apc = "fetch threw" =>
                /\ fopc = "threw"
                /\ llmCalls = 0
                /\ ~rewriteRequest.sent
                /\ pmLog = <<>>
                /\ fsWrites = <<>>
                /\ aEvents = <<>>
                /\ aResult = NotReturned
          /\ \A i, j \in 1..Len(tFetched) : tFetched[i] = tFetched[j] => i = j
          /\ tpc = "threw" /\ tFetched # <<>> =>
                /\ TrackerEventsFor(tFetched[Len(tFetched)]) = {}
                /\ \A i \in 1..Len(tEvents) : tEvents[i].name # "Tracking Complete")
    /\ [][fopc = "threw" => fopc' = "threw" /\ foQueries' = foQueries]_vars
    /\ [][apc = "fetch threw" => UNCHANGED <<lrnVars, pmVars>>]_vars
    /\ [][tpc = "threw" => UNCHANGED trkVars]_vars

\* C25 witness: the second request for 'No Improvement' outcomes was not
\* answered ok, and analyze has thrown
C25_Witness ==
    /\ foName = "No Improvement"
    /\ fopc = "threw"
    /\ Len(foQueries) = 2
    /\ Len(foResponses) = 1
    /\ apc = "fetch threw"
    /\ llmCalls = 0

\* The metrics fetch of the second record threw after the first was tracked
C25_TrackerThrew ==
    /\ tpc = "threw"
    /\ Len(tFetched) = 2
    /\ tracked = 1

----------------------------------------------------------------------------
(* Generator: the reason of a Failure record *)

\* The Failure record carries a reason: a non-empty string in lastReason
\* that is the reason of the last entry of its history
CarriesReason(f) ==
    /\ Truthy(f.lastReason)
    /\ f.history # <<>>
    /\ f.history[Len(f.history)].reason = f.lastReason

\* C26 (as claimed): every Failure record generate returns carries a
\* non-empty reason in lastReason that is also the reason of the last entry
\* of its history, whatever maxRetries was passed and whatever the
\* validators and the requests did.
C26_AsClaimed ==
    \A k \in 1..Len(failures) : CarriesReason(failures[k])

\* With a positive maxRetries every Failure record carries its reason
C26_PositiveCarriesReason ==
    maxRetries > 0 => \A k \in 1..Len(failures) : CarriesReason(failures[k])

\* A negative maxRetries: the loop of generateWithRetry is never entered and
\* the Failure record has lastReason null and an empty history
C26_Reached ==
    /\ gpc = "returned"
    /\ optMaxRetries = -1
    /\ Len(failures) = 1
    /\ failures[1].lastReason = Null
    /\ failures[1].history = <<>>
    /\ failures[1].attempts = -1

----------------------------------------------------------------------------
(* Learner: what the data floor counts *)

\* analyze has taken the 'Insufficient Data' exit
InsufficientDataExit ==
    /\ aResult = ReturnedNull
    /\ \E i \in 1..Len(aEvents) : aEvents[i].name = "Insufficient Data"

\* C27 (as claimed): the data floor counts the 'High CTR' outcomes: when the
\* store returned at least 5 of them, analyze does not take the
\* 'Insufficient Data' exit and goes on to the analysis request.
C27_AsClaimed ==
    (apc \in {"analyse", "store", "improve", "returned", "threw"}
        /\ Len(highCTROutcomes) >= MinHighPerformers) =>
        ~InsufficientDataExit

\* What the floor counts in the code: the outcomes that carry a description
C27_FloorCountsDescribed ==
    apc \in {"analyse", "store", "improve", "returned", "threw"} =>
        (InsufficientDataExit
            <=> Len(HighPerformers(highCTROutcomes)) < MinHighPerformers)

\* Five 'High CTR' outcomes, one of them without a description: analyze
\* returned null after 'Insufficient Data' { highPerformers: 4, needed: 5 }
C27_Reached ==
    /\ apc = "returned"
    /\ Len(highCTROutcomes) = 5
    /\ aEvents = <<[name |-> "Insufficient Data", highPerformers |-> 4, needed |-> 5]>>
    /\ aResult = ReturnedNull

----------------------------------------------------------------------------
(* Generator: an exception after failed attempts *)

\* The candidate that has just finished ended in the catch block of generate
\* while its attempt k > 1 was running
ThrewAfterFailures ==
    /\ PageFinished
    /\ outcomeOf[LastPage] = "error"
    /\ attempt > 1

\* C28: when an exception is raised at attempt k > 1 of a candidate, by the
\* request, by the parse of its answer or by a validator, the candidate ends
\* as a Failure with attempts = 0 and a history of one entry, that of the
\* exception; the k-1 rejections recorded before are not in the record; the
\* last event is 'Generation Error' and there is no 'Generation Failed'.
C28_ExceptionDropsHistory ==
    ThrewAfterFailures =>
        /\ Len(failureHistory) = attempt - 1
        /\ LastFailure.url = pages[LastPage]
        /\ LastFailure.attempts = 0
        /\ Len(LastFailure.history) = 1
        /\ LastFailure.history[1].attempt = 0
        /\ LastFailure.history[1].reason = LastFailure.lastReason
        /\ LastFailure.lastReason
                \in {Str(RequestError), Str(ParseError), Str(ValidatorError)}
        /\ \A k \in 1..Len(failureHistory) :
                \A h \in 1..Len(LastFailure.history) :
                    LastFailure.history[h].reason # failureHistory[k].reason
        /\ events[Len(events)].name = "Generation Error"
        /\ EventsNamed("Generation Error") = {Len(events)}
        /\ EventsNamed("Generation Failed") = {}
        /\ EventsNamed("Generated") = {}

\* C28 witness: a validator threw in the third attempt, after two rejections
C28_Witness ==
    /\ ThrewAfterFailures
    /\ attempt = 3
    /\ Len(failureHistory) = 2
    /\ vcalls[Len(vcalls)].threw
    /\ LastFailure.lastReason = Str(ValidatorError)
    /\ Len(LastFailure.history) = 1

----------------------------------------------------------------------------
(* PromptManager: the archive of the quality layer *)

BackupPaths == {BackupPath(d) : d \in 1..MaxDay}

\* The contents quality.md held just before an updateQualityPrompt call: what
\* the calls wrote to a backup, in order
ArchivedContents == SelectSeq(fsWrites, LAMBDA w : w.path \in BackupPaths)

\* Some backup file holds the text
StillArchived(text) ==
    \E path \in BackupPaths : files[path] = File(text)

\* C29 (as claimed): archived quality versions are never lost: every content
\* the quality layer held before some updateQualityPrompt call is still held
\* by a backup file, also when two calls fall on the same date.
C29_AsClaimed ==
    \A k \in 1..Len(ArchivedContents) : StillArchived(ArchivedContents[k].content)

\* What holds in the code: the backup of a day holds the content replaced by
\* the last call of that day
C29_LastOfTheDayKept ==
    \A path \in BackupPaths :
        LET ws == SelectSeq(ArchivedContents, LAMBDA w : w.path = path) IN
        IF ws = <<>> THEN ~files[path].exists
        ELSE files[path] = File(ws[Len(ws)].content)

\* Two calls on day 1: the initial guidelines, archived by the first call,
\* were overwritten by the archive of the second
C29_Reached ==
    /\ CallsMade(<<"updateQualityPrompt", "updateQualityPrompt">>)
    /\ today = 1
    /\ ArchivedContents[1].content = QUALITY_PROMPT_INITIAL
    /\ files[BackupPath(1)].content \in QualityTexts
    /\ ~StillArchived(QUALITY_PROMPT_INITIAL)

----------------------------------------------------------------------------
(* Two Learner runs: lost updates of the pattern list *)

\* The patterns run r has written so far, as addPattern stamps them
WrittenBy(r) ==
    [k \in 1..(runIdx[r] - 1) |-> Stamped(runAnalysis[r][k], today)]

\* The pattern is in patterns.json
Present(pattern) ==
    \E k \in 1..Len(patternsFile.patterns) : patternsFile.patterns[k] = pattern

\* Every step of run a so far was taken before every step of run b
RanBefore(a, b) ==
    \A i, j \in 1..Len(addLog) :
        addLog[i].run = a /\ addLog[j].run = b => i < j

\* The runs did not overlap: one finished its calls before the other began
Serialized ==
    \E a, b \in Runs :
        /\ a # b
        /\ RanBefore(a, b)
        /\ (\E j \in 1..Len(addLog) : addLog[j].run = b) => runPc[a] = "stored"

\* No addPattern call is between its read and its write
NoCallPending == \A r \in Runs : runPc[r] # "read"

\* C30: addPattern reads the list, pushes and writes it back with no lock.
\* When the runs are serialized, and so within a single run whose calls are
\* awaited one after another, every pattern appended so far is in the list,
\* which is a prior list followed by the patterns of the first run and then
\* those of the second; a pattern is missing from the list only when the
\* calls of the two runs interleaved; and each write stores the list its
\* call had read with the one pattern pushed.
C30_LostUpdateOnlyWhenInterleaved ==
    /\ [](Serialized /\ NoCallPending =>
            /\ \A r \in Runs : \A k \in 1..Len(WrittenBy(r)) : Present(WrittenBy(r)[k])
            /\ \E prior \in PriorLists : \E a, b \in Runs :
                    /\ a # b
                    /\ RanBefore(a, b)
                    /\ patternsFile.patterns = prior \o WrittenBy(a) \o WrittenBy(b))
    /\ []((\E r \in Runs : \E k \in 1..Len(WrittenBy(r)) : ~Present(WrittenBy(r)[k]))
            => ~Serialized)
    /\ [][\A r \in Runs :
            runPc[r] = "read" /\ runPc'[r] # "read" =>
                patternsFile'.patterns
                    = Append(runRead[r], Stamped(runAnalysis[r][runIdx[r]], today))]_vars

\* C30 witness: both runs have stored their one pattern, each having read
\* the list before the other wrote: the pattern of run 1 is missing
C30_Witness ==
    /\ \A r \in Runs : runPc[r] = "stored" /\ Len(runAnalysis[r]) = 1
    /\ ~Serialized
    /\ ~Present(WrittenBy(1)[1])
    /\ Present(WrittenBy(2)[1])
    /\ Len(patternsFile.patterns) = 2
    /\ patternsFile.patterns[1] = EarlierPattern

\* Serialized runs of two patterns each: all four are in the list
C30_SerializedKeepsAll ==
    /\ \A r \in Runs : runPc[r] = "stored" /\ Len(runAnalysis[r]) = 2
    /\ Serialized
    /\ Len(patternsFile.patterns) = 5

====
